---------------------------- MODULE Spec2Model ----------------------------
(***************************************************************************)
(* A model of the GLSL preprocessor of src/preprocessor/preprocessor.ts:   *)
(* the argument scanner, the regex-driven macro expander, the #if          *)
(* evaluator and the directive walker preprocessAst.                       *)
(*                                                                         *)
(* Text is a sequence of characters.  Every character carries, beside the  *)
(* character itself (field c), a history field p: the set of macro names   *)
(* whose expansion produced it.  p is never read by the modelled code; it  *)
(* only lets properties speak about where a piece of text came from.       *)
(***************************************************************************)
EXTENDS Integers, Sequences, FiniteSets, TLC

(***************************************************************************)
(* Strings                                                                 *)
(***************************************************************************)

\* A JavaScript string literal as a text with an empty history.
Lift(str) == [i \in 1..Len(str) |-> [c |-> SubSeq(str, i, i), p |-> {}]]

\* A sequence of characters as a text with an empty history.
LiftChars(cs) == [i \in 1..Len(cs) |-> [c |-> cs[i], p |-> {}]]

\* The characters of a text, without their history.
Plain(s) == [i \in 1..Len(s) |-> s[i].c]

\* The characters of a TLA+ string.
Chars(str) == [i \in 1..Len(str) |-> SubSeq(str, i, i)]

\* Adds the macro names ns to the history of every character of s.
AddPaint(s, ns) == [i \in 1..Len(s) |-> [c |-> s[i].c, p |-> s[i].p \cup ns]]

\* The regular expression class \w.
WordCh ==
    { "a","b","c","d","e","f","g","h","i","j","k","l","m","n","o","p","q",
      "r","s","t","u","v","w","x","y","z","A","B","C","D","E","F","G","H",
      "I","J","K","L","M","N","O","P","Q","R","S","T","U","V","W","X","Y",
      "Z","0","1","2","3","4","5","6","7","8","9","_" }

\* The regular expression class \s (the members that the model's texts use).
SpaceCh == { " ", "\t", "\n", "\r", "\f" }

IsWordAt(s, i) == i >= 1 /\ i <= Len(s) /\ s[i].c \in WordCh

IsSpaceAt(s, i) == i >= 1 /\ i <= Len(s) /\ s[i].c \in SpaceCh

\* The regular expression assertion \b, between positions i-1 and i (1-based).
WordBoundary(s, i) == IsWordAt(s, i - 1) # IsWordAt(s, i)

\* String.prototype.substring(from, to), 0-based, with its clamping.
Clamp(n, len) == IF n < 0 THEN 0 ELSE IF n > len THEN len ELSE n

SubstringClamped(s, lo, hi) ==
    IF lo <= hi THEN SubSeq(s, lo + 1, hi) ELSE SubSeq(s, hi + 1, lo)

Substring(s, from, to) == SubstringClamped(s, Clamp(from, Len(s)), Clamp(to, Len(s)))

\* String.prototype.substring(from).
SubstringFrom(s, from) == Substring(s, from, Len(s))

\* The characters of str occur in s from (1-based) position i on.
OccursAt(s, i, str) ==
    /\ i >= 1
    /\ i + Len(str) - 1 <= Len(s)
    /\ \A k \in 1..Len(str) : s[i + k - 1].c = str[k]

\* The least member of a non-empty set of integers.
Min(S) == CHOOSE m \in S : \A n \in S : m <= n

\* String.prototype.indexOf(pat), 0-based; -1 when pat does not occur.
FirstIndex(I) == IF I = {} THEN -1 ELSE Min(I) - 1

IndexOf(s, pat) == FirstIndex({ i \in 1..Len(s) : OccursAt(s, i, pat) })

\* The first (1-based) position from i on that holds no \s character.
SkipSpace(s, i) == Min({ j \in i..(Len(s) + 1) : ~IsSpaceAt(s, j) })

\* String.prototype.trim().
Max(S) == CHOOSE m \in S : \A n \in S : n <= m

TrimTo(s, I) == IF I = {} THEN <<>> ELSE SubSeq(s, Min(I), Max(I))

Trim(s) == TrimTo(s, { i \in 1..Len(s) : ~IsSpaceAt(s, i) })

(***************************************************************************)
(* The macro table is a JavaScript object.  It is modelled as the sequence *)
(* of its own entries in Object.entries order; an entry whose field proto  *)
(* is TRUE is no own entry: it stands for the object that an assignment to *)
(* the key "__proto__" has made the prototype of the table.                *)
(*                                                                         *)
(* without: a copy of the own entries that lacks the named key.            *)
(***************************************************************************)
RECURSIVE without(_, _)
without(obj, key) ==
    IF obj = <<>> THEN <<>>
    ELSE IF Head(obj).name = key \/ Head(obj).proto THEN without(Tail(obj), key)
         ELSE <<Head(obj)>> \o without(Tail(obj), key)

\* The property names that every object inherits from Object.prototype.
ObjectPrototypeKeys ==
    { "constructor", "hasOwnProperty", "isPrototypeOf", "propertyIsEnumerable",
      "toLocaleString", "toString", "valueOf", "__proto__", "__defineGetter__",
      "__defineSetter__", "__lookupGetter__", "__lookupSetter__" }

\* The keys of { body } and of { args, body }.
MacroKeys(macro) == IF macro.isFn THEN {"args", "body"} ELSE {"body"}

\* `name in macros`, name being given by its characters: the operator `in`
\* finds own and inherited properties.
HasKey(macros, name) ==
    \/ \E k \in 1..Len(macros) : ~macros[k].proto /\ Chars(macros[k].name) = name
    \/ \E k \in 1..Len(macros) :
          macros[k].proto /\ \E key \in MacroKeys(macros[k]) : Chars(key) = name
    \/ \E key \in ObjectPrototypeKeys : Chars(key) = name

(***************************************************************************)
(* scanFunctionArgs.  A scan state is [i, parens, args, arg, pc]: i is the *)
(* 0-based loop index; pc is "scan" inside the loop, "found" after the     *)
(* return inside the loop (length being i) and "null" after `return null`. *)
(***************************************************************************)
ScanInit == [i |-> 0, parens |-> 0, args |-> <<>>, arg |-> <<>>, pc |-> "scan"]

\* `parens` after the two tests of the loop body on the character char.
ScanParens(parens, char) ==
    IF char.c = "(" THEN parens + 1
    ELSE IF char.c = ")" THEN parens - 1
    ELSE parens

\* ScanOn splitting at every comma, whatever the depth.
ScanOnAnyDepth(st, char, parens) ==
    IF parens = -1
    THEN [st EXCEPT !.parens = parens, !.pc = "found",
            !.args = IF st.arg # <<>> \/ Len(st.args) > 0
                     THEN Append(st.args, st.arg) ELSE st.args]
    ELSE IF char.c = ","
         THEN [st EXCEPT !.i = st.i + 1, !.parens = parens,
                 !.args = Append(st.args, st.arg), !.arg = <<>>]
         ELSE [st EXCEPT !.i = st.i + 1, !.parens = parens,
                 !.arg = Append(st.arg, char)]

\* The rest of a pass of the loop, the character at i and the new value of
\* `parens` being known.
ScanOn(st, char, parens) ==
    IF parens = -1
    THEN [st EXCEPT !.parens = parens, !.pc = "found",
            !.args = IF st.arg # <<>> \/ Len(st.args) > 0
                     THEN Append(st.args, st.arg) ELSE st.args]
    ELSE IF char.c = "," /\ parens = 0
         THEN [st EXCEPT !.i = st.i + 1, !.parens = parens,
                 !.args = Append(st.args, st.arg), !.arg = <<>>]
         ELSE [st EXCEPT !.i = st.i + 1, !.parens = parens,
                 !.arg = Append(st.arg, char)]

\* ScanStep taking the end of the source for the closing parenthesis.
ScanStepOpenEnded(src, st) ==
    IF st.i >= Len(src)
    THEN [st EXCEPT !.pc = "found",
            !.args = IF st.arg # <<>> \/ Len(st.args) > 0
                     THEN Append(st.args, st.arg) ELSE st.args]
    ELSE ScanOn(st, src[st.i + 1], ScanParens(st.parens, src[st.i + 1]))

\* One pass of the for loop (or its exit) from the scan state st.
ScanStep(src, st) ==
    IF st.i >= Len(src) THEN [st EXCEPT !.pc = "null"]
    ELSE ScanOn(st, src[st.i + 1], ScanParens(st.parens, src[st.i + 1]))

RECURSIVE ScanLoop(_, _)
ScanLoop(src, st) ==
    IF st.pc = "scan" THEN ScanLoop(src, ScanStep(src, st)) ELSE st

\* The value returned: isNull for null, else { args, length }.
ScanResult(st) == [isNull |-> st.pc = "null", args |-> st.args, length |-> st.i]

scanFunctionArgs(src) == ScanResult(ScanLoop(src, ScanInit))

(***************************************************************************)
(* preprocessComments.  The state of its loop is a record of its locals:   *)
(* src (the characters), i, out, line, in_single and in_multi; pc tells    *)
(* whether the loop is on.  Each character of out goes with the (1-based)  *)
(* place in src it was read at; the space put for a block comment goes     *)
(* with the place of the closing "*" and with inserted = TRUE.             *)
(***************************************************************************)
StripInit(str) ==
    [src |-> str, i |-> 0, out |-> <<>>, line |-> 1, in_single |-> 0,
     in_multi |-> 0, pc |-> "loop"]

\* src.substring(j, j + 1)
CharAt(str, j) == IF j >= 0 /\ j < Len(str) THEN str[j + 1] ELSE ""

\* chr and la of a pass
Chr(st) == CharAt(st.src, st.i)

La(st) == CharAt(st.src, st.i + 1)

\* EntersSingle without the test of in_multi.
EntersSingleInMulti(st) == Chr(st) = "/" /\ La(st) = "/" /\ st.in_single = 0

\* chr == '/' && la == '/' && !in_single && !in_multi
EntersSingle(st) ==
    Chr(st) = "/" /\ La(st) = "/" /\ st.in_single = 0 /\ st.in_multi = 0

\* in_single = line; i++; continue
EnterSingle(st) == [st EXCEPT !.in_single = st.line, !.i = st.i + 2]

\* if (chr == '\n' && in_single) in_single = 0
ExitSingle(st) ==
    IF Chr(st) = "\n" /\ st.in_single # 0 THEN [st EXCEPT !.in_single = 0] ELSE st

\* chr == '/' && la == '*' && !in_multi && !in_single
EntersMulti(st) ==
    Chr(st) = "/" /\ La(st) = "*" /\ st.in_multi = 0 /\ st.in_single = 0

\* in_multi = line; i++; continue
EnterMulti(st) == [st EXCEPT !.in_multi = st.line, !.i = st.i + 2]

\* chr == '*' && la == '/' && in_multi
ExitsMulti(st) == Chr(st) = "*" /\ La(st) = "/" /\ st.in_multi # 0

\* if (in_multi == line) out += ' '; in_multi = 0; i++; continue
ExitMulti(st) ==
    [st EXCEPT !.out = IF st.in_multi = st.line
                       THEN Append(st.out, [c |-> " ", at |-> st.i + 1,
                                            inserted |-> TRUE])
                       ELSE st.out,
               !.in_multi = 0, !.i = st.i + 2]

\* Emits for a test that leaves out the newlines of comments.
EmitsOutsideOnly(st) == st.in_multi = 0 /\ st.in_single = 0

\* (!in_multi && !in_single) || chr == '\n'
Emits(st) == (st.in_multi = 0 /\ st.in_single = 0) \/ Chr(st) = "\n"

\* out += chr; line++
EmitChar(st) ==
    [st EXCEPT !.out = Append(st.out, [c |-> Chr(st), at |-> st.i + 1,
                                       inserted |-> FALSE]),
               !.line = st.line + 1, !.i = st.i + 1]

\* The end of a pass that emits nothing.
DropChar(st) == [st EXCEPT !.i = st.i + 1]

\* The pass after the test of the end of a single line comment.
StripRest(st) ==
    IF EntersMulti(st) THEN EnterMulti(st)
    ELSE IF ExitsMulti(st) THEN ExitMulti(st)
    ELSE IF Emits(st) THEN EmitChar(st)
    ELSE DropChar(st)

\* One pass of the for loop, or its end: return out.
StripStep(st) ==
    IF st.i >= Len(st.src) THEN [st EXCEPT !.pc = "done"]
    ELSE IF EntersSingle(st) THEN EnterSingle(st)
    ELSE StripRest(ExitSingle(st))

RECURSIVE StripLoop(_)
StripLoop(st) == IF st.pc = "done" THEN st ELSE StripLoop(StripStep(st))

preprocessComments(str) == [j \in 1..Len(StripLoop(StripInit(str)).out) |->
                              StripLoop(StripInit(str)).out[j].c]

(***************************************************************************)
(* tokenPaste: str.replace(/\s+##\s+/g, '')                                 *)
(***************************************************************************)

\* The length of the match of \s+##\s+ that starts at position i, or 0.
PasteMatchTo(s, i, j) ==
    IF OccursAt(s, j, <<"#", "#">>) /\ IsSpaceAt(s, j + 2)
    THEN SkipSpace(s, j + 2) - i
    ELSE 0

\* PasteMatchLen for a pattern that asks for no white space before "##".
PasteMatchLenLoose(s, i) == PasteMatchTo(s, i, SkipSpace(s, i))

PasteMatchLen(s, i) ==
    IF ~IsSpaceAt(s, i) THEN 0 ELSE PasteMatchTo(s, i, SkipSpace(s, i))

RECURSIVE tokenPaste(_)

\* The replacement from the head of str on, n being the length of the match
\* at the head (0: none).
PasteFrom(str, n) ==
    IF n > 0 THEN tokenPaste(SubSeq(str, n + 1, Len(str)))
    ELSE <<Head(str)>> \o tokenPaste(Tail(str))

tokenPaste(str) == IF str = <<>> THEN <<>> ELSE PasteFrom(str, PasteMatchLen(str, 1))

(***************************************************************************)
(* String.prototype.replace with a string as the replacement: the          *)
(* replacement patterns $$, $& and $' are substituted.  The patterns that  *)
(* name a capture group stay as they are, the searched patterns having no  *)
(* group; the pattern for the text before the match needs a backquote,     *)
(* which no text of the model holds.                                       *)
(***************************************************************************)
RECURSIVE GetSubstitution(_, _, _)
GetSubstitution(matched, after, repl) ==
    IF repl = <<>> THEN <<>>
    ELSE IF repl[1].c = "$" /\ Len(repl) >= 2 /\ repl[2].c \in {"$", "&", "'"}
         THEN (CASE repl[2].c = "$" -> <<repl[1]>>
                 [] repl[2].c = "&" -> matched
                 [] OTHER -> after)
              \o GetSubstitution(matched, after, SubSeq(repl, 3, Len(repl)))
         ELSE <<Head(repl)>> \o GetSubstitution(matched, after, Tail(repl))

\* str.replace(pat, repl) for a string pat: the first occurrence of pat only.
ReplaceAt(str, pat, repl, at) ==
    IF at = -1 THEN str
    ELSE SubSeq(str, 1, at)
         \o GetSubstitution(SubSeq(str, at + 1, at + Len(pat)),
                            SubSeq(str, at + Len(pat) + 1, Len(str)), repl)
         \o SubSeq(str, at + Len(pat) + 1, Len(str))

ReplaceFirst(str, pat, repl) == ReplaceAt(str, pat, repl, IndexOf(str, Plain(pat)))

(***************************************************************************)
(* Macros.  A macro is [name, isFn, args, body, proto]: isFn says that the *)
(* macro has an args field (a function-like macro, even with no            *)
(* parameter); args is the parameter list as parsed, identifier nodes and  *)
(* "," literal nodes; body is a text ("" for a #define without a body).    *)
(***************************************************************************)
ObjMacro(name, body) ==
    [name |-> name, isFn |-> FALSE, args |-> <<>>, body |-> Lift(body),
     proto |-> FALSE]

IdNode(id) == [type |-> "identifier", identifier |-> id]

CommaNode == [type |-> "literal", literal |-> ","]

FnMacro(name, args, body) ==
    [name |-> name, isFn |-> TRUE, args |-> args, body |-> Lift(body),
     proto |-> FALSE]

\* The result of an expansion: st is "ok" (text is the returned string),
\* "threw" (msg is the Error's message) or "diverges" (the loop of
\* expandFunctionMacro has come back to a value of `current` it had before and
\* so repeats for ever).  reexp records that some macro rewrote an occurrence
\* of its name whose characters all came out of its own expansion.
Ok(text, reexp) == [st |-> "ok", text |-> text, msg |-> <<>>, reexp |-> reexp]

Threw(msg, reexp) == [st |-> "threw", text |-> <<>>, msg |-> msg, reexp |-> reexp]

Diverges(reexp) == [st |-> "diverges", text |-> <<>>, msg |-> <<>>, reexp |-> reexp]

\* The macro names that produced every one of the characters i..j of s.
Inherit(s, i, j) == { n \in s[i].p : \A k \in i..j : n \in s[k].p }

(***************************************************************************)
(* The regular expressions of the expander.                                *)
(***************************************************************************)

\* new RegExp(`\\b${macroName}\\b`) matches at position i.
\* ObjMatchAt for a pattern without the \b assertions.
ObjMatchAnywhere(s, i, macroName) == OccursAt(s, i, Chars(macroName))

ObjMatchAt(s, i, macroName) ==
    /\ WordBoundary(s, i)
    /\ OccursAt(s, i, Chars(macroName))
    /\ WordBoundary(s, i + Len(macroName))

\* regex.test(text)
ObjTest(text, macroName) == \E i \in 1..Len(text) : ObjMatchAt(text, i, macroName)

\* The length of the match of `\\b${macroName}\\s*\\(` at position i, or 0.
FnMatchTo(s, i, j) == IF j <= Len(s) /\ s[j].c = "(" THEN j - i + 1 ELSE 0

FnMatchLen(s, i, macroName) ==
    IF WordBoundary(s, i) /\ OccursAt(s, i, Chars(macroName))
    THEN FnMatchTo(s, i, SkipSpace(s, i + Len(macroName)))
    ELSE 0

FnExecAmong(current, macroName, I) ==
    IF I = {} THEN [index |-> -1, len |-> 0]
    ELSE [index |-> Min(I) - 1, len |-> FnMatchLen(current, Min(I), macroName)]

\* startRegex.exec(current): the first match, index being 0-based, or index -1.
FnExec(current, macroName) ==
    FnExecAmong(current, macroName,
                { i \in 1..Len(current) : FnMatchLen(current, i, macroName) > 0 })

\* text.replace(new RegExp(`\\b${macroName}\\b`, 'g'), scanned), from position i.
RECURSIVE ReplaceAllObj(_, _, _, _)
ReplaceAllObj(text, i, macroName, scanned) ==
    IF i > Len(text) THEN <<>>
    ELSE IF ObjMatchAt(text, i, macroName)
         THEN AddPaint(GetSubstitution(
                           SubSeq(text, i, i + Len(macroName) - 1),
                           SubSeq(text, i + Len(macroName), Len(text)), scanned),
                       Inherit(text, i, i + Len(macroName) - 1))
              \o ReplaceAllObj(text, i + Len(macroName), macroName, scanned)
         ELSE <<text[i]>> \o ReplaceAllObj(text, i + 1, macroName, scanned)

\* macro.args without the "," literals.
macroArgsOf(macro) ==
    SelectSeq(macro.args,
              LAMBDA a : IF "literal" \in DOMAIN a THEN a.literal # "," ELSE TRUE)

\* argKeys[identifier]: the reduce lets a later parameter of the same name win.
ArgKey(argIdentifiers, vals, identifier) ==
    vals[CHOOSE k \in 1..Len(argIdentifiers) :
            /\ argIdentifiers[k] = identifier
            /\ \A l \in (k + 1)..Len(argIdentifiers) : argIdentifiers[l] # identifier]

\* The parameters replaced one after the other, each over the whole text
\* that the replacements before it have left.
RECURSIVE SubstEach(_, _, _, _)
SubstEach(body, j, argIdentifiers, vals) ==
    IF j > Len(argIdentifiers) THEN body
    ELSE SubstEach(ReplaceAllObj(body, 1, argIdentifiers[j], vals[j]), j + 1,
                   argIdentifiers, vals)

SubstSequential(body, i, argIdentifiers, vals) ==
    SubstEach(body, 1, argIdentifiers, vals)

\* macro.body.replace(/(\ba\b|\bb\b)/g, (match) => argKeys[match]), from i.
RECURSIVE SubstParams(_, _, _, _)

\* The replacement from position i on, K being the alternatives that match at i.
SubstAt(body, i, argIdentifiers, vals, K) ==
    IF K = {}
    THEN <<body[i]>> \o SubstParams(body, i + 1, argIdentifiers, vals)
    ELSE ArgKey(argIdentifiers, vals, argIdentifiers[Min(K)])
         \o SubstParams(body, i + Len(argIdentifiers[Min(K)]), argIdentifiers, vals)

SubstParams(body, i, argIdentifiers, vals) ==
    IF i > Len(body) THEN <<>>
    ELSE SubstAt(body, i, argIdentifiers, vals,
                 { k \in 1..Len(argIdentifiers) :
                     ObjMatchAt(body, i, argIdentifiers[k]) })

(***************************************************************************)
(* expandFunctionMacro, expandObjectMacro, expandMacros                    *)
(***************************************************************************)
RECURSIVE expandMacros(_, _)

\* What a pass of the while loop of expandFunctionMacro has come to.  c holds
\* the arguments of expandFunctionMacro and the locals set so far.
FnOut(c, st, msg, again, expanded, current, expandedReplace) ==
    [st |-> st, msg |-> msg, reexp |-> again,
     expanded |-> expanded, current |-> current,
     index |-> c.startMatch.index,
     matchLength |-> IF c.result.isNull THEN 0 ELSE c.matchLength,
     nargs |-> Len(c.result.args), nformal |-> Len(c.macroArgs),
     expandedReplace |-> expandedReplace]

\* The end of a pass: `processed` is cut at endOfReplace.
FnCut(c, rescan, again, processed, endOfReplace) ==
    FnOut(c, "ok", <<>>, again,
          c.expanded \o Substring(processed, 0, endOfReplace),
          SubstringFrom(processed, endOfReplace), rescan.text)

\* The pass after the rescan of the replaced body.
FnReplace(c, rescan, again) ==
    IF rescan.st # "ok"
    THEN FnOut(c, rescan.st, rescan.msg, again \/ rescan.reexp,
               c.expanded, c.current, <<>>)
    ELSE FnCut(c, rescan, again \/ rescan.reexp,
               ReplaceFirst(c.current,
                            Substring(c.current, c.startMatch.index,
                                      c.startMatch.index + c.matchLength),
                            rescan.text),
               c.startMatch.index + Len(rescan.text))

\* The pass after the expansion of the arguments: argRes[k] is the result
\* of expandMacros for the k-th parameter.
FnBody(c, argRes, bad) ==
    IF bad # {}
    THEN FnOut(c, argRes[Min(bad)].st, argRes[Min(bad)].msg,
               c.again \/ argRes[Min(bad)].reexp, c.expanded, c.current, <<>>)
    ELSE FnReplace(c,
             expandMacros(
                 tokenPaste(SubstParams(
                     AddPaint(c.macro.body, {c.macroName} \cup c.inherit), 1,
                     [k \in 1..Len(c.macroArgs) |-> c.macroArgs[k].identifier],
                     [k \in 1..Len(c.macroArgs) |-> argRes[k].text])),
                 without(c.macros, c.macroName)),
             c.again \/ \E k \in 1..Len(c.macroArgs) : argRes[k].reexp)

FnArgs(c, argRes) ==
    FnBody(c, argRes, { k \in 1..Len(c.macroArgs) : argRes[k].st # "ok" })

\* FnCheck without the test for too many arguments.
FnCheckNoTooMany(c) ==
    IF c.result.isNull
    THEN FnOut(c, "threw",
               Plain(Substring(c.current, c.startMatch.index,
                               c.startMatch.index + c.startMatch.len))
               \o <<" unterminated macro invocation">>,
               c.again, c.expanded, c.current, <<>>)
    ELSE IF Len(c.result.args) < Len(c.macroArgs)
    THEN FnOut(c, "threw",
               <<"'">> \o Chars(c.macroName)
               \o <<"': Not enough arguments for macro">>,
               c.again, c.expanded, c.current, <<>>)
    ELSE FnArgs(c, [k \in 1..Len(c.macroArgs) |->
                      expandMacros(Trim(c.result.args[k]), c.macros)])

\* FnCheck with the arguments expanded under the table without the macro.
FnCheckHidingSelf(c) ==
    IF c.result.isNull
    THEN FnOut(c, "threw",
               Plain(Substring(c.current, c.startMatch.index,
                               c.startMatch.index + c.startMatch.len))
               \o <<" unterminated macro invocation">>,
               c.again, c.expanded, c.current, <<>>)
    ELSE IF Len(c.result.args) > Len(c.macroArgs)
    THEN FnOut(c, "threw",
               <<"'">> \o Chars(c.macroName)
               \o <<"': Too many arguments for macro">>,
               c.again, c.expanded, c.current, <<>>)
    ELSE IF Len(c.result.args) < Len(c.macroArgs)
    THEN FnOut(c, "threw",
               <<"'">> \o Chars(c.macroName)
               \o <<"': Not enough arguments for macro">>,
               c.again, c.expanded, c.current, <<>>)
    ELSE FnArgs(c, [k \in 1..Len(c.macroArgs) |->
                      expandMacros(Trim(c.result.args[k]),
                                   without(c.macros, c.macroName))])

\* The pass after the scan of the arguments.
FnCheck(c) ==
    IF c.result.isNull
    THEN FnOut(c, "threw",
               Plain(Substring(c.current, c.startMatch.index,
                               c.startMatch.index + c.startMatch.len))
               \o <<" unterminated macro invocation">>,
               c.again, c.expanded, c.current, <<>>)
    ELSE IF Len(c.result.args) > Len(c.macroArgs)
    THEN FnOut(c, "threw",
               <<"'">> \o Chars(c.macroName)
               \o <<"': Too many arguments for macro">>,
               c.again, c.expanded, c.current, <<>>)
    ELSE IF Len(c.result.args) < Len(c.macroArgs)
    THEN FnOut(c, "threw",
               <<"'">> \o Chars(c.macroName)
               \o <<"': Not enough arguments for macro">>,
               c.again, c.expanded, c.current, <<>>)
    ELSE FnArgs(c, [k \in 1..Len(c.macroArgs) |->
                      expandMacros(Trim(c.result.args[k]), c.macros)])

FnScanned(macros, macroName, macro, expanded, current, startMatch, result, inherit) ==
    FnCheck([macros |-> macros, macroName |-> macroName, macro |-> macro,
             expanded |-> expanded, current |-> current,
             startMatch |-> startMatch, result |-> result,
             macroArgs |-> macroArgsOf(macro),
             matchLength |-> startMatch.len + result.length + 1,
             inherit |-> inherit, again |-> macroName \in inherit])

FnMatched(macros, macroName, macro, expanded, current, startMatch) ==
    FnScanned(macros, macroName, macro, expanded, current, startMatch,
              scanFunctionArgs(
                  SubstringFrom(current, startMatch.index + startMatch.len)),
              Inherit(current, startMatch.index + 1,
                      startMatch.index + Len(macroName)))

\* One pass of the while loop of expandFunctionMacro, a match being there.
FnStep(macros, macroName, macro, expanded, current) ==
    FnMatched(macros, macroName, macro, expanded, current,
              FnExec(current, macroName))

\* The while loop of expandFunctionMacro; seen holds the values `current` had.
RECURSIVE FnLoop(_, _, _, _, _, _, _)

FnLoopOn(macros, macroName, macro, current, seen, reexp, step) ==
    IF step.st = "threw" THEN Threw(step.msg, reexp \/ step.reexp)
    ELSE IF step.st = "diverges" THEN Diverges(reexp \/ step.reexp)
    ELSE FnLoop(macros, macroName, macro, step.expanded, step.current,
                seen \cup {Plain(current)}, reexp \/ step.reexp)

FnLoop(macros, macroName, macro, expanded, current, seen, reexp) ==
    IF FnExec(current, macroName).index = -1
    THEN Ok(expanded \o current, reexp)
    ELSE IF Plain(current) \in seen THEN Diverges(reexp)
    ELSE FnLoopOn(macros, macroName, macro, current, seen, reexp,
                  FnStep(macros, macroName, macro, expanded, current))

expandFunctionMacro(macros, macroName, macro, text) ==
    FnLoop(macros, macroName, macro, <<>>, text, {}, FALSE)

\* expandObjectMacro after its recursive scan of the body.
ObjReplace(macroName, text, scanned, again) ==
    IF scanned.st # "ok"
    THEN [scanned EXCEPT !.reexp = again \/ scanned.reexp]
    ELSE Ok(tokenPaste(ReplaceAllObj(text, 1, macroName, scanned.text)),
            again \/ scanned.reexp)

expandObjectMacro(macros, macroName, macro, text) ==
    IF ObjTest(text, macroName)
    THEN ObjReplace(macroName, text,
                    expandMacros(AddPaint(macro.body, {macroName}),
                                 without(macros, macroName)),
                    \E i \in 1..Len(text) :
                        /\ ObjMatchAt(text, i, macroName)
                        /\ macroName \in Inherit(text, i, i + Len(macroName) - 1))
    ELSE Ok(text, FALSE)

\* The step of the reduce of expandMacros for one entry of the table.
ExpandEntry(macros, macro, result) ==
    IF macro.isFn
    THEN expandFunctionMacro(macros, macro.name, macro, result)
    ELSE expandObjectMacro(macros, macro.name, macro, result)

\* Object.entries(macros).reduce(...), from entry k on.
RECURSIVE ReduceMacros(_, _, _, _)

ReduceOn(macros, k, reexp, r) ==
    IF r.st # "ok" THEN [r EXCEPT !.reexp = reexp \/ r.reexp]
    ELSE ReduceMacros(macros, k + 1, r.text, reexp \/ r.reexp)

ReduceMacros(macros, k, result, reexp) ==
    IF k > Len(macros) THEN Ok(result, reexp)
    ELSE IF macros[k].proto THEN ReduceMacros(macros, k + 1, result, reexp)
    ELSE ReduceOn(macros, k, reexp, ExpandEntry(macros, macros[k], result))

expandMacros(text, macros) == ReduceMacros(macros, 1, text, FALSE)

(***************************************************************************)
(* Expressions of #if and #elif.  A node is [type, token, identifier,      *)
(* operator, kids]: token is the text of an int_constant, identifier the   *)
(* name of an identifier or of the operand of defined(), kids the operand  *)
(* nodes (expression of a group or unary, left and right of a binary).     *)
(***************************************************************************)
IntConstant(tok) ==
    [type |-> "int_constant", token |-> Lift(tok), identifier |-> <<>>,
     operator |-> "", kids |-> <<>>]

Identifier(name) ==
    [type |-> "identifier", token |-> <<>>, identifier |-> Lift(name),
     operator |-> "", kids |-> <<>>]

UnaryDefined(name) ==
    [type |-> "unary_defined", token |-> <<>>, identifier |-> Lift(name),
     operator |-> "", kids |-> <<>>]

Group(e) ==
    [type |-> "group", token |-> <<>>, identifier |-> <<>>,
     operator |-> "", kids |-> <<e>>]

Unary(op, e) ==
    [type |-> "unary", token |-> <<>>, identifier |-> <<>>,
     operator |-> op, kids |-> <<e>>]

Binary(op, l, r) ==
    [type |-> "binary", token |-> <<>>, identifier |-> <<>>,
     operator |-> op, kids |-> <<l, r>>]

\* What expandInExpressions or an evaluation comes to: st is "ok", "threw"
\* or "diverges"; expr is the expression as it stands, val the value.
ExprOk(e) == [st |-> "ok", msg |-> <<>>, expr |-> e]

ExprFailed(r, e) == [st |-> r.st, msg |-> r.msg, expr |-> e]

\* The identifier handler: node.identifier = expandMacros(node.identifier, macros).
IdentifierExpanded(e, r) ==
    IF r.st = "ok" THEN ExprOk([e EXCEPT !.identifier = r.text]) ELSE ExprFailed(r, e)

RECURSIVE expandInExpression(_, _)

\* The visit of the kids of e from the j-th on, the kids before being done.
RECURSIVE ExpandKids(_, _, _)

ExpandKidsOn(macros, e, j, r) ==
    IF r.st # "ok" THEN ExprFailed(r, e)
    ELSE ExpandKids(macros, [e EXCEPT !.kids[j] = r.expr], j + 1)

ExpandKids(macros, e, j) ==
    IF j > Len(e.kids) THEN ExprOk(e)
    ELSE ExpandKidsOn(macros, e, j, expandInExpression(macros, e.kids[j]))

\* The visit of one expression by expandInExpressions: the operand of
\* defined() is skipped, every other identifier is expanded.
expandInExpression(macros, e) ==
    IF e.type = "unary_defined" THEN ExprOk(e)
    ELSE IF e.type = "identifier"
    THEN IdentifierExpanded(e, expandMacros(e.identifier, macros))
    ELSE ExpandKids(macros, e, 1)

(***************************************************************************)
(* Values of the evaluator: JavaScript numbers, booleans and strings.  A    *)
(* finite number is the fraction n/d in lowest terms with d > 0 (the       *)
(* quotients of the operands of the model are kept exact, and an integer   *)
(* has d = 1); NaN and the two infinities are values of their own, n being *)
(* the sign of an infinity.  Zero has no sign.                             *)
(***************************************************************************)
NumVal(n) == [t |-> "number", n |-> n, d |-> 1, b |-> FALSE, s |-> <<>>]

BoolVal(b) == [t |-> "boolean", n |-> 0, d |-> 1, b |-> b, s |-> <<>>]

StrVal(s) == [t |-> "string", n |-> 0, d |-> 1, b |-> FALSE, s |-> s]

NaNVal == [t |-> "nan", n |-> 0, d |-> 1, b |-> FALSE, s |-> <<>>]

InfVal(sign) == [t |-> "infinity", n |-> sign, d |-> 1, b |-> FALSE, s |-> <<>>]

\* !!x
isTruthy(x) ==
    CASE x.t = "number" -> x.n # 0
      [] x.t = "boolean" -> x.b
      [] x.t = "string" -> x.s # <<>>
      [] x.t = "nan" -> FALSE
      [] x.t = "infinity" -> TRUE

DigitCh == { "0", "1", "2", "3", "4", "5", "6", "7", "8", "9" }

DigitOf(ch) == CHOOSE d \in 0..9 : <<"0","1","2","3","4","5","6","7","8","9">>[d + 1] = ch

RECURSIVE DigitsValue(_)
DigitsValue(cs) ==
    IF cs = <<>> THEN 0
    ELSE 10 * DigitsValue(SubSeq(cs, 1, Len(cs) - 1)) + DigitOf(cs[Len(cs)])

\* parseInt(token, 10) of a token made of decimal digits.
parseInt(token) == DigitsValue(Plain(token))

EvalOk(v) == [st |-> "ok", msg |-> <<>>, val |-> v]

EvalThrew(msg) == [st |-> "threw", msg |-> msg, val |-> BoolVal(FALSE)]

(***************************************************************************)
(* JavaScript arithmetic on these values.                                  *)
(***************************************************************************)
Abs(n) == IF n < 0 THEN -n ELSE n

Sign(n) == IF n < 0 THEN -1 ELSE IF n > 0 THEN 1 ELSE 0

RECURSIVE Gcd(_, _)
Gcd(a, b) == IF b = 0 THEN a ELSE Gcd(b, a % b)

\* The integer part of n/d, d # 0: the quotient rounded toward zero.
Trunc(n, d) == Sign(n) * Sign(d) * (Abs(n) \div Abs(d))

FractionOver(n, d, g) ==
    [t |-> "number", n |-> Sign(d) * (n \div g), d |-> Abs(d) \div g,
     b |-> FALSE, s |-> <<>>]

\* The number n/d, d # 0.
Fraction(n, d) == FractionOver(n, d, Gcd(Abs(n), Abs(d)))

\* The characters of a natural number, and of an integer.
RECURSIVE NatChars(_)
NatChars(n) ==
    IF n < 10 THEN <<<<"0","1","2","3","4","5","6","7","8","9">>[n + 1]>>
    ELSE NatChars(n \div 10) \o NatChars(n % 10)

IntChars(n) == IF n < 0 THEN <<"-">> \o NatChars(-n) ELSE NatChars(n)

\* A string without the white space at its ends.
TrimChars(cs) ==
    IF \A i \in 1..Len(cs) : cs[i] \in SpaceCh THEN <<>>
    ELSE SubSeq(cs, Min({ i \in 1..Len(cs) : cs[i] \notin SpaceCh }),
                Max({ i \in 1..Len(cs) : cs[i] \notin SpaceCh }))

IsDigits(cs) == cs # <<>> /\ \A i \in 1..Len(cs) : cs[i] \in DigitCh

\* Number(string) of a trimmed string: empty is 0, a decimal integer with
\* or without sign is its value, "Infinity" is itself and another text is
\* NaN.  The strings of the model hold no fraction, exponent or prefix.
StringToNumber(cs) ==
    IF cs = <<>> THEN NumVal(0)
    ELSE IF IsDigits(cs) THEN NumVal(DigitsValue(cs))
    ELSE IF cs[1] = "-" /\ IsDigits(Tail(cs)) THEN NumVal(-DigitsValue(Tail(cs)))
    ELSE IF cs[1] = "+" /\ IsDigits(Tail(cs)) THEN NumVal(DigitsValue(Tail(cs)))
    ELSE IF cs = Chars("Infinity") \/ cs = Chars("+Infinity") THEN InfVal(1)
    ELSE IF cs = Chars("-Infinity") THEN InfVal(-1)
    ELSE NaNVal

\* ToNumber
ToNumber(v) ==
    CASE v.t = "boolean" -> NumVal(IF v.b THEN 1 ELSE 0)
      [] v.t = "string" -> StringToNumber(TrimChars(v.s))
      [] OTHER -> v

\* String(v), of a number that is an integer, NaN or an infinity.
NumberToString(v) ==
    CASE v.t = "string" -> v.s
      [] v.t = "boolean" -> IF v.b THEN Chars("true") ELSE Chars("false")
      [] v.t = "nan" -> Chars("NaN")
      [] v.t = "infinity" ->
            IF v.n < 0 THEN Chars("-Infinity") ELSE Chars("Infinity")
      [] v.t = "number" /\ v.d = 1 -> IntChars(v.n)

\* x + y, x * y, x / y, x % y, x < y, x == y of numbers.
NumAdd(x, y) ==
    CASE x.t = "nan" \/ y.t = "nan" -> NaNVal
      [] x.t = "infinity" /\ y.t = "infinity" -> IF x.n = y.n THEN x ELSE NaNVal
      [] x.t = "infinity" /\ y.t = "number" -> x
      [] x.t = "number" /\ y.t = "infinity" -> y
      [] OTHER -> Fraction(x.n * y.d + y.n * x.d, x.d * y.d)

NumMul(x, y) ==
    CASE x.t = "nan" \/ y.t = "nan" -> NaNVal
      [] x.t = "infinity" \/ y.t = "infinity" ->
            IF x.n = 0 \/ y.n = 0 THEN NaNVal ELSE InfVal(Sign(x.n) * Sign(y.n))
      [] OTHER -> Fraction(x.n * y.n, x.d * y.d)

NumDiv(x, y) ==
    CASE x.t = "nan" \/ y.t = "nan" -> NaNVal
      [] x.t = "infinity" /\ y.t = "infinity" -> NaNVal
      [] x.t = "infinity" -> InfVal(IF y.n < 0 THEN -x.n ELSE x.n)
      [] y.t = "infinity" -> NumVal(0)
      [] y.n = 0 -> IF x.n = 0 THEN NaNVal ELSE InfVal(Sign(x.n))
      [] OTHER -> Fraction(x.n * y.d, x.d * y.n)

NumRem(x, y) ==
    CASE x.t = "nan" \/ y.t = "nan" \/ x.t = "infinity" -> NaNVal
      [] y.t = "infinity" -> x
      [] y.n = 0 -> NaNVal
      [] OTHER ->
            NumAdd(x, NumMul(y, NumVal(-Trunc(x.n * y.d, x.d * y.n))))

NumLess(x, y) ==
    CASE x.t = "nan" \/ y.t = "nan" -> FALSE
      [] x.t = "infinity" /\ y.t = "infinity" -> x.n < y.n
      [] x.t = "infinity" -> x.n < 0
      [] y.t = "infinity" -> y.n > 0
      [] OTHER -> x.n * y.d < y.n * x.d

NumEq(x, y) == x.t # "nan" /\ y.t # "nan" /\ x = y

\* ToInt32 of a number.  The integers of the model are 32 bits wide: the
\* wrap-around of a wider integer is not modelled.
ToInt32(x) == IF x.t = "number" THEN Trunc(x.n, x.d) ELSE 0

\* 2 * n in 32 bits, two's complement.
Double32(n) ==
    IF n >= 1073741824 THEN ((n - 1073741824) * 2 - 2147483647) - 1
    ELSE IF n < -1073741824 THEN ((n + 1073741824) * 2 + 2147483647) + 1
    ELSE 2 * n

\* n << c and n >> c of 32-bit integers, c being the count masked to 0..31.
RECURSIVE Shl32(_, _)
Shl32(n, c) == IF c = 0 THEN n ELSE Shl32(Double32(n), c - 1)

Shr32(n, c) == IF c = 31 THEN (IF n < 0 THEN -1 ELSE 0) ELSE n \div (2 ^ c)

\* n & m, n | m, n ^ m of integers in two's complement.
RECURSIVE BitAnd(_, _)
BitAnd(n, m) ==
    IF n = 0 \/ m = 0 THEN 0
    ELSE IF n = -1 THEN m
    ELSE IF m = -1 THEN n
    ELSE 2 * BitAnd(n \div 2, m \div 2) + (n % 2) * (m % 2)

BitNot(n) == -n - 1

BitOr(n, m) == BitNot(BitAnd(BitNot(n), BitNot(m)))

BitXor(n, m) == BitAnd(BitOr(n, m), BitNot(BitAnd(n, m)))

\* The place of a character in the order of the code units: the printable
\* ASCII characters that the texts of the model are made of, in their
\* order, and the control characters before them.
CodeOrder ==
    Chars(" !#$%&'()*+,-./0123456789:;<=>?@")
    \o Chars("ABCDEFGHIJKLMNOPQRSTUVWXYZ[]^_")
    \o Chars("abcdefghijklmnopqrstuvwxyz{|}~")

CodeOf(ch) ==
    IF \E j \in 1..Len(CodeOrder) : CodeOrder[j] = ch
    THEN CHOOSE j \in 1..Len(CodeOrder) : CodeOrder[j] = ch
    ELSE 0

\* cs < ds of strings: the order of the code units.
RECURSIVE StrLess(_, _)
StrLess(cs, ds) ==
    IF ds = <<>> THEN FALSE
    ELSE IF cs = <<>> THEN TRUE
    ELSE IF cs[1] = ds[1] THEN StrLess(Tail(cs), Tail(ds))
    ELSE CodeOf(cs[1]) < CodeOf(ds[1])

\* x < y, x == y and x + y of values.
Less(x, y) ==
    IF x.t = "string" /\ y.t = "string" THEN StrLess(x.s, y.s)
    ELSE NumLess(ToNumber(x), ToNumber(y))

\* x <= y is x < y || x == y unless the operands are strings, for which it
\* is !(y < x).
LessOrEqual(x, y) ==
    IF x.t = "string" /\ y.t = "string" THEN ~StrLess(y.s, x.s)
    ELSE NumLess(ToNumber(x), ToNumber(y)) \/ NumEq(ToNumber(x), ToNumber(y))

LooseEqual(x, y) ==
    IF x.t = "string" /\ y.t = "string" THEN x.s = y.s
    ELSE NumEq(ToNumber(x), ToNumber(y))

Plus(x, y) ==
    IF x.t = "string" \/ y.t = "string"
    THEN StrVal(NumberToString(x) \o NumberToString(y))
    ELSE NumAdd(ToNumber(x), ToNumber(y))

\* The shift count: ToUint32(y) & 31.
ShiftCount(y) == ToInt32(ToNumber(y)) % 32

\* visit(left) <op> visit(right) for the operators other than && and ||.
BinaryValue(op, x, y) ==
    CASE op = "*" -> NumMul(ToNumber(x), ToNumber(y))
      [] op = "/" -> NumDiv(ToNumber(x), ToNumber(y))
      [] op = "%" -> NumRem(ToNumber(x), ToNumber(y))
      [] op = "+" -> Plus(x, y)
      [] op = "-" -> NumAdd(ToNumber(x), NumMul(NumVal(-1), ToNumber(y)))
      [] op = "<<" -> NumVal(Shl32(ToInt32(ToNumber(x)), ShiftCount(y)))
      [] op = ">>" -> NumVal(Shr32(ToInt32(ToNumber(x)), ShiftCount(y)))
      [] op = "<" -> BoolVal(Less(x, y))
      [] op = ">" -> BoolVal(Less(y, x))
      [] op = "<=" -> BoolVal(LessOrEqual(x, y))
      [] op = ">=" -> BoolVal(LessOrEqual(y, x))
      [] op = "==" -> BoolVal(LooseEqual(x, y))
      [] op = "!=" -> BoolVal(~LooseEqual(x, y))
      [] op = "&" -> NumVal(BitAnd(ToInt32(ToNumber(x)), ToInt32(ToNumber(y))))
      [] op = "^" -> NumVal(BitXor(ToInt32(ToNumber(x)), ToInt32(ToNumber(y))))
      [] op = "|" -> NumVal(BitOr(ToInt32(ToNumber(x)), ToInt32(ToNumber(y))))

\* visit(node.expression) under the operators "+", "-" and "~".
UnaryValue(op, x) ==
    CASE op = "+" -> x
      [] op = "-" -> NumMul(NumVal(-1), ToNumber(x))
      [] op = "~" -> NumVal(BitNot(ToInt32(ToNumber(x))))

\* The binary operators that evaluteExpression has a case for.
BinaryOperators ==
    { "*", "/", "%", "+", "-", "<<", ">>", "<", ">", "<=", ">=", "==", "!=",
      "&", "^", "|", "&&", "||" }

\* The unary operators that evaluteExpression has a case for.
UnaryOperators == { "+", "-", "!", "~" }

RECURSIVE evaluteExpression(_, _)

\* visit(left) && visit(right), visit(left) || visit(right): the right
\* operand is visited only when the left one does not decide.
EvalLogical(node, macros, l) ==
    IF l.st # "ok" THEN l
    ELSE IF node.operator = "&&"
    THEN (IF isTruthy(l.val) THEN evaluteExpression(node.kids[2], macros) ELSE l)
    ELSE (IF isTruthy(l.val) THEN l ELSE evaluteExpression(node.kids[2], macros))

\* !visit(node.expression)
EvalNot(v) == IF v.st # "ok" THEN v ELSE EvalOk(BoolVal(~isTruthy(v.val)))

\* visit(left) <op> visit(right): the left operand is visited first.
EvalRight(node, l, r) ==
    IF r.st # "ok" THEN r ELSE EvalOk(BinaryValue(node.operator, l.val, r.val))

EvalBinary(node, macros, l) ==
    IF l.st # "ok" THEN l
    ELSE EvalRight(node, l, evaluteExpression(node.kids[2], macros))

EvalUnary(node, v) ==
    IF v.st # "ok" THEN v ELSE EvalOk(UnaryValue(node.operator, v.val))

\* evaluate(node, evaluators): one case for each evaluator and operator, and
\* the default cases of the two switches.
evaluteExpression(node, macros) ==
    CASE node.type = "int_constant" -> EvalOk(NumVal(parseInt(node.token)))
      [] node.type = "unary_defined" ->
            EvalOk(BoolVal(HasKey(macros, Plain(node.identifier))))
      [] node.type = "identifier" -> EvalOk(StrVal(Plain(node.identifier)))
      [] node.type = "group" -> evaluteExpression(node.kids[1], macros)
      [] node.type = "binary" /\ node.operator \in {"&&", "||"} ->
            EvalLogical(node, macros, evaluteExpression(node.kids[1], macros))
      [] node.type = "binary" /\ node.operator \in BinaryOperators \ {"&&", "||"} ->
            EvalBinary(node, macros, evaluteExpression(node.kids[1], macros))
      [] node.type = "binary" /\ node.operator \notin BinaryOperators ->
            EvalThrew(Chars("Preprocessing error: Unknown binary operator ")
                      \o Chars(node.operator))
      [] node.type = "unary" /\ node.operator = "!" ->
            EvalNot(evaluteExpression(node.kids[1], macros))
      [] node.type = "unary" /\ node.operator \in {"+", "-", "~"} ->
            EvalUnary(node, evaluteExpression(node.kids[1], macros))
      [] node.type = "unary" /\ node.operator \notin UnaryOperators ->
            EvalThrew(Chars("Preprocessing error: Unknown unary operator ")
                      \o Chars(node.operator))

(***************************************************************************)
(* The preprocessor AST.  A node is [type, text, message, identifier,      *)
(* args, body, ifPart, elseIfParts, elsePart]; a field that a node type    *)
(* does not have is empty.  The parts of a conditional are [type,          *)
(* expression, identifier, body]: expression holds the expression of an    *)
(* #if or #elif (no element for the other parts), body the nodes of the    *)
(* branch; ifPart holds one part, elsePart one or none.                    *)
(***************************************************************************)
BlankNode(type) ==
    [type |-> type, text |-> <<>>, message |-> <<>>, identifier |-> "",
     args |-> <<>>, body |-> <<>>, ifPart |-> <<>>, elseIfParts |-> <<>>,
     elsePart |-> <<>>]

TextNode(t) == [BlankNode("text") EXCEPT !.text = Lift(t)]

DefineNode(name, body) ==
    [BlankNode("define") EXCEPT !.identifier = name, !.body = Lift(body)]

DefineArgumentsNode(name, args, body) ==
    [BlankNode("define_arguments") EXCEPT
        !.identifier = name, !.args = args, !.body = Lift(body)]

UndefNode(name) == [BlankNode("undef") EXCEPT !.identifier = name]

ErrorNode(msg) == [BlankNode("error") EXCEPT !.message = Lift(msg)]

IfPart(e, body) ==
    [type |-> "if", expression |-> <<e>>, identifier |-> "", body |-> body]

IfDefPart(name, body) ==
    [type |-> "ifdef", expression |-> <<>>, identifier |-> name, body |-> body]

IfNDefPart(name, body) ==
    [type |-> "ifndef", expression |-> <<>>, identifier |-> name, body |-> body]

ElseIfPart(e, body) ==
    [type |-> "elseif", expression |-> <<e>>, identifier |-> "", body |-> body]

ElsePart(body) ==
    [type |-> "else", expression |-> <<>>, identifier |-> "", body |-> body]

\* elsePart is <<>> for a conditional without #else.
ConditionalNode(ifPart, elseIfParts, elsePart) ==
    [BlankNode("conditional") EXCEPT
        !.ifPart = <<ifPart>>, !.elseIfParts = elseIfParts, !.elsePart = elsePart]

(***************************************************************************)
(* The macro table of preprocessAst, a JavaScript object: its entries keep *)
(* the order in which their keys were first set.                           *)
(***************************************************************************)

\* The reduce over Object.entries(options.defines): each entry is { body }.
RECURSIVE SeedMacros(_)
SeedMacros(defines) ==
    IF defines = <<>> THEN <<>>
    ELSE <<[name |-> Head(defines).name, isFn |-> FALSE, args |-> <<>>,
            body |-> Head(defines).body, proto |-> FALSE]>>
         \o SeedMacros(Tail(defines))

\* The table has an own entry of this name.
HasOwn(macros, name) ==
    \E j \in 1..Len(macros) : ~macros[j].proto /\ macros[j].name = name

\* macros[identifier] = macro.  An own key keeps its place and takes the
\* value.  Without an own key "__proto__", the assignment to "__proto__"
\* runs the setter inherited from Object.prototype: the value becomes the
\* prototype of the table, which gets no own entry.  Any other key is added.
SetMacro(macros, macro) ==
    IF HasOwn(macros, macro.name)
    THEN [j \in 1..Len(macros) |->
            IF ~macros[j].proto /\ macros[j].name = macro.name
            THEN macro ELSE macros[j]]
    ELSE IF macro.name = "__proto__"
    THEN <<[macro EXCEPT !.proto = TRUE]>>
         \o SelectSeq(macros, LAMBDA m : ~m.proto)
    ELSE Append(macros, macro)

\* delete macros[identifier]: an own entry of the name goes.
DeleteMacro(macros, name) ==
    SelectSeq(macros, LAMBDA m : m.proto \/ m.name # name)

\* { args, body } of a define_arguments node, { body } of a define node.
MacroOfNode(node) ==
    [name |-> node.identifier, isFn |-> node.type = "define_arguments",
     args |-> node.args, body |-> node.body, proto |-> FALSE]

\* preserveNode(path): options.preserve gives a predicate for a node type;
\* preserve is the set of the types whose predicate holds.
preserveNode(preserve, node) == node.type \in preserve

(***************************************************************************)
(* The conditional handler.                                                *)
(***************************************************************************)

\* expandInExpressions over the expressions of the #if part (when it has
\* one) and of the #elif parts, in this order: parts is <<ifPart>> followed
\* by the elseIfParts, j the part the forEach is at.
RECURSIVE ExpandParts(_, _, _)

ExpandPartOn(macros, parts, j, r) ==
    IF r.st # "ok" THEN [st |-> r.st, msg |-> r.msg, parts |-> parts]
    ELSE ExpandParts(macros, [parts EXCEPT ![j].expression = <<r.expr>>], j + 1)

ExpandParts(macros, parts, j) ==
    IF j > Len(parts) THEN [st |-> "ok", msg |-> <<>>, parts |-> parts]
    ELSE IF parts[j].expression = <<>> THEN ExpandParts(macros, parts, j + 1)
    ELSE ExpandPartOn(macros, parts, j,
                      expandInExpression(macros, parts[j].expression[1]))

evaluateIfPart(macros, ifPart) ==
    CASE ifPart.type = "if" -> evaluteExpression(ifPart.expression[1], macros)
      [] ifPart.type = "ifdef" ->
            EvalOk(BoolVal(HasKey(macros, Chars(ifPart.identifier))))
      [] ifPart.type = "ifndef" ->
            EvalOk(BoolVal(~HasKey(macros, Chars(ifPart.identifier))))

\* What the selection has come to: calls holds the bodies that
\* path.replaceWith was called with, removed tells of path.remove(), and
\* evaluated holds the indexes of the #elif parts that were evaluated.
Selection(st, msg, res, calls, removed, evaluated) ==
    [st |-> st, msg |-> msg, res |-> res, calls |-> calls,
     removed |-> removed, evaluated |-> evaluated]

\* evaluteExpression(elif.expression, macros) && (path.replaceWith(elif.body), true)
ElifEvaluated(elif, j, acc, v) ==
    IF v.st # "ok"
    THEN Selection(v.st, v.msg, acc.res, acc.calls, FALSE, Append(acc.evaluated, j))
    ELSE IF isTruthy(v.val)
    THEN Selection("ok", <<>>, TRUE, Append(acc.calls, elif.body), FALSE,
                   Append(acc.evaluated, j))
    ELSE Selection("ok", <<>>, FALSE, acc.calls, FALSE, Append(acc.evaluated, j))

\* ElifStep without `res ||`.
ElifStepUnguarded(macros, elif, j, acc) ==
    ElifEvaluated(elif, j, acc, evaluteExpression(elif.expression[1], macros))

\* The callback of the reduce over elseIfParts: res || (...).
ElifStep(macros, elif, j, acc) ==
    IF acc.res THEN acc
    ELSE ElifEvaluated(elif, j, acc, evaluteExpression(elif.expression[1], macros))

RECURSIVE ElifReduce(_, _, _, _)
ElifReduce(macros, elifs, j, acc) ==
    IF j > Len(elifs) \/ acc.st # "ok" THEN acc
    ELSE ElifReduce(macros, elifs, j + 1, ElifStep(macros, elifs[j], j, acc))

\* ElseBranch without path.remove().
ElseBranchWithoutRemove(node, acc) ==
    IF acc.st # "ok" \/ acc.res THEN acc
    ELSE IF node.elsePart # <<>>
    THEN [acc EXCEPT !.calls = Append(acc.calls, node.elsePart[1].body)]
    ELSE acc

\* if (!elseBranchHit) { elsePart ? replaceWith(elsePart.body) : remove() }
ElseBranch(node, acc) ==
    IF acc.st # "ok" \/ acc.res THEN acc
    ELSE IF node.elsePart # <<>>
    THEN [acc EXCEPT !.calls = Append(acc.calls, node.elsePart[1].body)]
    ELSE [acc EXCEPT !.removed = TRUE]

\* The selection, v being what evaluateIfPart came to.
SelectOn(macros, node, v) ==
    IF v.st # "ok" THEN Selection(v.st, v.msg, FALSE, <<>>, FALSE, <<>>)
    ELSE IF isTruthy(v.val)
    THEN Selection("ok", <<>>, TRUE, <<node.ifPart[1].body>>, FALSE, <<>>)
    ELSE ElseBranch(node,
             ElifReduce(macros, node.elseIfParts, 1,
                        Selection("ok", <<>>, FALSE, <<>>, FALSE, <<>>)))

\* The node with the expressions that expandInExpressions has rewritten.
WithParts(node, parts) ==
    [node EXCEPT !.ifPart = <<parts[1]>>,
                 !.elseIfParts = SubSeq(parts, 2, Len(parts))]

\* The handler after expandInExpressions, x being what that came to.
ConditionalOn(macros, node, x) ==
    IF x.st # "ok"
    THEN [sel |-> Selection(x.st, x.msg, FALSE, <<>>, FALSE, <<>>),
          node |-> WithParts(node, x.parts)]
    ELSE [sel |-> SelectOn(macros, WithParts(node, x.parts),
                           evaluateIfPart(macros, x.parts[1])),
          node |-> WithParts(node, x.parts)]

\* conditional.enter for a node that is not preserved.
conditionalEnter(macros, node) ==
    ConditionalOn(macros, node,
                  ExpandParts(macros, node.ifPart \o node.elseIfParts, 1))

(***************************************************************************)
(* Bounds and inputs                                                       *)
(***************************************************************************)

\* The longest generated source of scanFunctionArgs.
MaxScanLen == 6

\* The longest generated text of expandMacros.
MaxTextLen == 4

\* All sequences over the characters A of a length up to n.
SeqsUpTo(A, n) == UNION { [1..k -> A] : k \in 0..n }

ScanAlphabet == { "a", ",", "(", ")" }

ScanSources == { LiftChars(cs) : cs \in SeqsUpTo(ScanAlphabet, MaxScanLen) }

a_ == IdNode("a")

b_ == IdNode("b")

\* The macro tables that the generated texts are expanded under.
GenMacros ==
    { <<FnMacro("f", <<a_>>, "a a")>>,
      <<FnMacro("f", <<>>, "x"), ObjMacro("x", "f()")>>,
      <<ObjMacro("x", "f(x)"), FnMacro("f", <<a_, CommaNode, b_>>, "b,a")>>,
      <<ObjMacro("x", "")>>,
      <<FnMacro("f", <<a_>>, "f(a)"), ObjMacro("x", "(")>> }

GenAlphabet == { "f", "x", "(", ")", ",", " " }

GenTexts == { LiftChars(cs) : cs \in SeqsUpTo(GenAlphabet, MaxTextLen) }

\* Texts and macro tables of the repository's tests, and further cases.
CaseInputs ==
    { [text |-> Lift("X"),
       macros |-> <<ObjMacro("X", "Y"), ObjMacro("Y", "Z")>>],
      [text |-> Lift("second"),
       macros |-> <<ObjMacro("first", "first second"),
                    ObjMacro("second", "first")>>],
      [text |-> Lift("second"),
       macros |-> <<ObjMacro("second", "first"),
                    ObjMacro("first", "first second")>>],
      [text |-> Lift("foo() xfoo() foo ()"),
       macros |-> <<FnMacro("foo", <<>>, "foo()")>>],
      [text |-> Lift("second"),
       macros |-> <<ObjMacro("b", "c"),
                    FnMacro("first", <<a_, CommaNode, b_>>, "a + b"),
                    ObjMacro("second", "first(1,b)")>>],
      [text |-> Lift("fn(MACRO); MACRO_2 xMACRO"),
       macros |-> <<ObjMacro("MACRO", "")>>],
      [text |-> Lift("foo(\nfoo()"),
       macros |-> <<FnMacro("foo", <<>>, "yes expand")>>],
      [text |-> Lift("foo()\nfoo\n()"),
       macros |-> <<FnMacro("foo", <<>>, "yes expand")>>],
      [text |-> Lift("foo(1,2,3)"),
       macros |-> <<FnMacro("foo", <<a_, CommaNode, b_>>, "a + b")>>],
      [text |-> Lift("foo(,)"),
       macros |-> <<FnMacro("foo", <<a_>>, "a + b")>>],
      [text |-> Lift("foo(1)"),
       macros |-> <<FnMacro("foo", <<a_, CommaNode, b_>>, "a + b")>>],
      [text |-> Lift("foo(x + y, (z-t + vec3(0.0, 1.0)))\nfoo\n(q,\nr)\nfoo(,)"),
       macros |-> <<FnMacro("foo", <<a_, CommaNode, b_>>, "a + b")>>],
      [text |-> Lift("foo (foo (a, X), c)"),
       macros |-> <<ObjMacro("X", "Z"),
                    FnMacro("foo", <<IdNode("x"), CommaNode, IdNode("y")>>,
                            "x + y")>>],
      [text |-> Lift("COMMAND(x)"),
       macros |-> <<FnMacro("COMMAND", <<IdNode("NAME")>>,
                            "{ NAME, NAME ## _command ## x ## y }")>>],
      [text |-> Lift("a ## X"),
       macros |-> <<ObjMacro("X", "Y")>>],
      [text |-> Lift("g(q) g( q )"),
       macros |-> <<ObjMacro("qy", "Z"), ObjMacro("y", "V"),
                    FnMacro("g", <<a_>>, "a ## y ## ## a  ##\n## a## b ##c")>>],
      [text |-> Lift("f() f()"),
       macros |-> <<FnMacro("f", <<>>, "$'")>>],
      [text |-> Lift("f() f() f()"),
       macros |-> <<FnMacro("f", <<>>, "$'")>>],
      [text |-> Lift("f()f()"),
       macros |-> <<FnMacro("f", <<>>, "$$")>>],
      [text |-> Lift("X + X"),
       macros |-> <<ObjMacro("X", "$&")>>],
      [text |-> Lift("xf() f()"),
       macros |-> <<FnMacro("f", <<>>, "y")>>],
      [text |-> Lift("f xf\n() f\n() f"),
       macros |-> <<FnMacro("f", <<>>, "y")>>],
      [text |-> Lift("foo(b, a)"),
       macros |-> <<FnMacro("foo", <<a_, CommaNode, b_>>, "a + b")>>],
      [text |-> Lift("foo(b a, a b)"),
       macros |-> <<FnMacro("foo", <<a_, CommaNode, b_>>, "ab(a)b.a_b b")>>],
      [text |-> Lift("f(x, f())"),
       macros |-> <<FnMacro("f", <<a_, CommaNode, b_>>, "1")>>],
      [text |-> Lift("f()"),
       macros |-> <<FnMacro("g", <<a_>>, "a"), FnMacro("f", <<>>, "g()")>>] }

\* The longest generated body of a macro with "##".
MaxPasteLen == 7

PasteAlphabet == { "a", "#", " " }

\* The macro p(a) with each generated body, called with the argument "#".
PasteInputs ==
    { [text |-> Lift("p(#)"),
       macros |-> <<[FnMacro("p", <<a_>>, "") EXCEPT !.body = LiftChars(cs)]>>] :
        cs \in SeqsUpTo(PasteAlphabet, MaxPasteLen) }

ExpandInputs ==
    CaseInputs \cup PasteInputs
    \cup { [text |-> t, macros |-> m] : t \in GenTexts, m \in GenMacros }

\* The longest generated source of preprocessComments.
MaxCommentLen == 6

CommentAlphabet == { "/", "*", "\n", "a" }

\* The source of the repository's test, and further cases.
CaseSources ==
    { Chars("// ccc\n/* cc */aaa/* cc */\n/**\n * cccc\n */\nbbb\n"),
      Chars("a/*//\n*/b/*//*/c//d/*\ne*/f"),
      Chars("/*/a\n/**//b") }

CommentSources == CaseSources \cup SeqsUpTo(CommentAlphabet, MaxCommentLen)

\* The most directives at the head of a generated program.
MaxDirectives == 2

\* The most #elif parts of a generated conditional.
MaxElseIfs == 2

PragmaNode == BlankNode("pragma")

VersionNode == BlankNode("version")

ExtensionNode == BlankNode("extension")

LineNode == BlankNode("line")

GenDirectives ==
    { DefineNode("X", "Y"), DefineNode("X", ""),
      DefineArgumentsNode("f", <<a_>>, "a a"), UndefNode("X") }

GenTextNodes == { TextNode("X"), TextNode("f(X)") }

\* The bodies of the branches of a generated conditional differ, so that
\* the body put in place tells the branch.
GenIfParts ==
    { IfDefPart("X", <<TextNode("X")>>),
      IfNDefPart("X", <<TextNode("X")>>),
      IfPart(Identifier("X"), <<TextNode("X")>>) }

GenElseIfBodies == << <<DefineNode("X", "Z")>>, <<UndefNode("X")>>, <<LineNode>> >>

GenElseIfParts ==
    { [j \in 1..Len(es) |-> ElseIfPart(IntConstant(es[j]), GenElseIfBodies[j])] :
        es \in SeqsUpTo({"0", "1"}, MaxElseIfs) }

GenElseParts == { <<>>, <<ElsePart(<<TextNode("f(X)")>>)>> }

GenConditionals ==
    { ConditionalNode(i, es, el) :
        i \in GenIfParts, es \in GenElseIfParts, el \in GenElseParts }

\* A generated program: directives, then a conditional or a text or
\* neither, then a text or none.
GenPrograms ==
    { ds \o mid \o end :
        ds \in SeqsUpTo(GenDirectives, MaxDirectives),
        mid \in {<<>>} \cup { <<n>> : n \in GenConditionals \cup GenTextNodes },
        end \in {<<>>} \cup { <<n>> : n \in GenTextNodes } }

\* Programs of the repository's tests, and further cases.
CasePrograms ==
    { <<DefineNode("X", "Y"), DefineNode("Y", "Z"), TextNode("X")>>,
      <<DefineNode("MACRO", ""),
        ConditionalNode(
            IfDefPart("NOT_DEFINED", <<TextNode("A")>>), <<>>,
            <<ElsePart(<<ConditionalNode(IfDefPart("MACRO", <<TextNode("B")>>),
                                         <<>>, <<>>)>>)>>)>>,
      <<DefineNode("X", "1"), TextNode("X"), UndefNode("X"), TextNode("X"),
        DefineNode("X", "2"),
        ConditionalNode(IfPart(Identifier("X"), <<TextNode("X")>>), <<>>, <<>>),
        DefineNode("X", "3"), TextNode("X")>>,
      <<TextNode("X"),
        ConditionalNode(
            IfPart(Binary("&&", UnaryDefined("X"), Unary("!", Identifier("Y"))),
                   <<DefineNode("Y", "X"), TextNode("Y")>>),
            <<ElseIfPart(Binary("||", Identifier("X"), IntConstant("0")),
                         <<UndefNode("X")>>),
              ElseIfPart(Group(IntConstant("1")),
                         <<ConditionalNode(
                               IfNDefPart("Y", <<DefineNode("Y", "")>>),
                               <<ElseIfPart(IntConstant("1"), <<TextNode("Y")>>)>>,
                               <<>>)>>)>>,
            <<ElsePart(<<DefineNode("X", "W")>>)>>),
        TextNode("X Y")>>,
      <<DefineNode("Y", ""),
        ConditionalNode(
            IfPart(Identifier("Y"), <<TextNode("A")>>),
            <<ElseIfPart(Unary("!", UnaryDefined("Y")), <<TextNode("B")>>),
              ElseIfPart(Identifier("Z"),
                         <<ConditionalNode(
                               IfPart(IntConstant("0"), <<TextNode("C")>>),
                               <<>>, <<>>),
                           TextNode("D")>>)>>,
            <<>>)>>,
      <<DefineArgumentsNode("f", <<a_>>, "a"), DefineNode("A", "f(1,2)"),
        ConditionalNode(
            IfPart(IntConstant("1"), <<TextNode("A")>>),
            <<ElseIfPart(Identifier("A"), <<TextNode("B")>>)>>, <<>>)>>,
      <<DefineArgumentsNode("foo", <<>>, "yes expand"), TextNode("foo(\nfoo()")>>,
      <<PragmaNode, VersionNode, ExtensionNode, LineNode, TextNode("X"),
        ErrorNode("e"), TextNode("X")>>,
      <<ConditionalNode(IfDefPart("constructor", <<TextNode("A")>>), <<>>, <<>>),
        ConditionalNode(IfNDefPart("toString", <<TextNode("B")>>), <<>>, <<>>),
        ConditionalNode(IfPart(UnaryDefined("valueOf"), <<TextNode("C")>>),
                        <<>>, <<>>)>>,
      <<DefineNode("__proto__", "1"), TextNode("__proto__"),
        ConditionalNode(IfDefPart("body", <<TextNode("A")>>), <<>>, <<>>),
        UndefNode("__proto__"), TextNode("__proto__")>>,
      <<ConditionalNode(
            IfDefPart("X", <<ErrorNode("a"), TextNode("X")>>),
            <<ElseIfPart(IntConstant("1"), <<ErrorNode("b")>>)>>,
            <<ElsePart(<<ErrorNode("c")>>)>>),
        TextNode("X"), ErrorNode("d")>>,
      <<ConditionalNode(
            IfNDefPart("X", <<ErrorNode("a")>>), <<>>,
            <<ElsePart(<<TextNode("X")>>)>>),
        ErrorNode("d"), ErrorNode("e")>> }

Programs == CasePrograms \cup GenPrograms

\* The largest integer constant of a generated expression.
MaxOperand == 3

OperandTokens == <<"0", "1", "2", "3", "4", "5", "6", "7", "8", "9">>

\* The constant n of an expression, 0 <= n <= 9.
Constant(n) == IntConstant(OperandTokens[n + 1])

GenConstants == { Constant(n) : n \in 0..MaxOperand }

\* The constants and their negations.
GenOperands ==
    GenConstants \cup { Unary("-", Constant(n)) : n \in 1..MaxOperand }

\* The generated expressions of an #if: one operator over operands, two
\* operators over constants nested to the left as the parser nests
\* operators of falling precedence, and two operators with a group as the
\* right operand.
GenExpressions ==
    { Binary(op, l, r) : op \in BinaryOperators, l \in GenOperands, r \in GenOperands }
    \cup { Binary(op[2], Binary(op[1], l, m), r) :
              op \in BinaryOperators \X BinaryOperators,
              l \in GenConstants, m \in GenConstants, r \in GenConstants }
    \cup { Binary(op[1], l, Group(Binary(op[2], m, r))) :
              op \in BinaryOperators \X BinaryOperators,
              l \in GenConstants \ {Constant(0)}, m \in GenConstants \ {Constant(0)},
              r \in GenConstants \ {Constant(0)} }

\* Expressions whose right operand throws when it is evaluated, and
\* expressions of larger constants.
CaseExpressions ==
    { Binary(op, Constant(n), Binary("@", Constant(1), Constant(1))) :
        op \in {"&&", "||"}, n \in 0..1 }
    \cup { Binary("==", Binary("/", Constant(3), Constant(2)), Constant(1)),
           Binary("==", Binary("/", IntConstant("12"), Constant(4)), Constant(3)),
           Binary("<<", Constant(1), IntConstant("30")),
           Binary(">>", IntConstant("1024"), IntConstant("10")),
           Unary("!", Binary("%", IntConstant("10"), Constant(5))),
           Unary("~", Unary("+", Group(Binary("-", Constant(0), Constant(1))))) }

\* #if e / A / #else / B / #endif
ExpressionProgram(e) ==
    <<ConditionalNode(IfPart(e, <<TextNode("A")>>), <<>>,
                      <<ElsePart(<<TextNode("B")>>)>>)>>

ExpressionPrograms ==
    { ExpressionProgram(e) : e \in GenExpressions \cup CaseExpressions }

\* The expressions of an identifier X: X alone, under a unary operator and
\* as either operand or both of a binary operator.
GenIdentifierExpressions ==
    { Identifier("X"), Group(Identifier("X")) }
    \cup { Unary(op, Identifier("X")) : op \in UnaryOperators }
    \cup { Binary(op, Identifier("X"), c) : op \in BinaryOperators, c \in GenConstants }
    \cup { Binary(op, c, Identifier("X")) : op \in BinaryOperators, c \in GenConstants }
    \cup { Binary(op, Identifier("X"), Identifier("X")) : op \in BinaryOperators }

\* #define X n / #if e / A / #else / B / #endif
IdentifierPrograms ==
    { <<DefineNode("X", OperandTokens[n + 1])>> \o ExpressionProgram(e) :
        n \in 0..MaxOperand, e \in GenIdentifierExpressions }

NodeTypes ==
    { "conditional", "text", "define_arguments", "define", "undef", "error",
      "pragma", "version", "extension", "line" }

\* The options: defines holds the entries of options.defines in their order.
Options(defines, preserve, stopOnError) ==
    [defines |-> defines, preserve |-> preserve, stopOnError |-> stopOnError]

OptionSets ==
    { Options(<<>>, {}, FALSE),
      Options(<<[name |-> "X", body |-> Lift("1")]>>, {}, TRUE),
      Options(<<>>, {"conditional"}, FALSE),
      Options(<<[name |-> "Y", body |-> Lift("X")]>>,
              NodeTypes \ {"conditional", "text"}, FALSE) }

(***************************************************************************)
(* State                                                                   *)
(***************************************************************************)
VARIABLES
    src,        \* scanFunctionArgs: its argument
    scan,       \* scanFunctionArgs: i, parens, args, arg and the position
    text,       \* expandMacros: its first argument
    xmacros,    \* expandMacros: its second argument, the macro table
    k,          \* expandMacros: the entry of the table the reduce is at
    result,     \* expandMacros: the accumulator of the reduce
    expanded,   \* expandFunctionMacro: `expanded`
    current,    \* expandFunctionMacro: `current`
    seen,       \* the values `current` had at the head of the running loop
    xpc,        \* expandMacros: "reduce", "loop", "done", "threw", "diverges"
    xmsg,       \* the message of the Error thrown
    reexp,      \* some macro rewrote text that its own expansion produced
    last,       \* the step taken last and the state it was taken in
    program,    \* preprocessAst: the nodes of its first argument
    options,    \* preprocessAst: its second argument
    macros,     \* preprocessAst: `macros`
    todo,       \* the nodes that the visitor has still to enter, in order
    out,        \* the nodes that the visitor has left in the tree, in order
    wpc,        \* preprocessAst: "walk", "done", "threw", "diverges"
    wmsg,       \* the message of the Error thrown
    hist,       \* the #define and #undef directives entered so far
    uses,       \* the expansions made so far, each with the table it used
    wlast,      \* the handler run last and what it came to
    strip       \* preprocessComments: src, i, out, line, in_single, in_multi

scanVars == <<src, scan>>

expandVars ==
    <<text, xmacros, k, result, expanded, current, seen, xpc, xmsg, reexp, last>>

walkVars == <<program, options, macros, todo, out, wpc, wmsg, hist, uses, wlast>>

commentVars == <<strip>>

vars == <<scanVars, expandVars, walkVars, commentVars>>

NoStep ==
    [st |-> "ok", msg |-> <<>>, reexp |-> FALSE, expanded |-> <<>>,
     current |-> <<>>, index |-> 0, matchLength |-> 0, nargs |-> 0,
     nformal |-> 0, expandedReplace |-> <<>>]

NoLast ==
    [kind |-> "none", name |-> "", before |-> <<>>, acc |-> <<>>, step |-> NoStep]

StripIdle == strip = [StripInit(<<>>) EXCEPT !.pc = "idle"]

ScanIdle == src = <<>> /\ scan = [ScanInit EXCEPT !.pc = "idle"]

ExpandIdle ==
    /\ text = <<>> /\ xmacros = <<>> /\ k = 1 /\ result = <<>>
    /\ expanded = <<>> /\ current = <<>> /\ seen = {} /\ xpc = "idle"
    /\ xmsg = <<>> /\ reexp = FALSE /\ last = NoLast

NoSelection == Selection("ok", <<>>, FALSE, <<>>, FALSE, <<>>)

NoHandler ==
    [kind |-> "none", preserved |-> FALSE, sel |-> NoSelection,
     node |-> BlankNode("none"), entered |-> BlankNode("none"), rest |-> <<>>]

WalkIdle ==
    /\ program = <<>> /\ options = Options(<<>>, {}, FALSE) /\ macros = <<>>
    /\ todo = <<>> /\ out = <<>> /\ wpc = "idle" /\ wmsg = <<>>
    /\ hist = <<>> /\ uses = <<>> /\ wlast = NoHandler

(***************************************************************************)
(* preprocessComments(src) for the sources of CommentSources               *)
(***************************************************************************)
InitComments ==
    /\ \E str \in CommentSources : strip = StripInit(str)
    /\ ScanIdle
    /\ ExpandIdle
    /\ WalkIdle

\* A pass of the loop, the loop being on.
StripPass ==
    /\ strip.pc = "loop"
    /\ strip.i < Len(strip.src)
    /\ strip' = StripStep(strip)
    /\ UNCHANGED <<scanVars, expandVars, walkVars>>

\* The pass that meets "//" outside a comment.
SingleEntered == StripPass /\ EntersSingle(strip)

\* The pass that meets the start of a block comment outside a comment.
MultiEntered == StripPass /\ ~EntersSingle(strip) /\ EntersMulti(ExitSingle(strip))

\* The pass that meets the end of a block comment inside one.
MultiExited ==
    /\ StripPass
    /\ ~EntersSingle(strip) /\ ~EntersMulti(ExitSingle(strip))
    /\ ExitsMulti(ExitSingle(strip))

\* The pass that emits its character.
CharEmitted ==
    /\ StripPass
    /\ ~EntersSingle(strip) /\ ~EntersMulti(ExitSingle(strip))
    /\ ~ExitsMulti(ExitSingle(strip))
    /\ Emits(ExitSingle(strip))

\* The pass that drops its character.
CharDropped ==
    /\ StripPass
    /\ ~EntersSingle(strip) /\ ~EntersMulti(ExitSingle(strip))
    /\ ~ExitsMulti(ExitSingle(strip))
    /\ ~Emits(ExitSingle(strip))

\* The end of the loop: return out.
StripReturn ==
    /\ strip.pc = "loop"
    /\ strip.i >= Len(strip.src)
    /\ strip' = StripStep(strip)
    /\ UNCHANGED <<scanVars, expandVars, walkVars>>

NextComments ==
    \/ SingleEntered \/ MultiEntered \/ MultiExited
    \/ CharEmitted \/ CharDropped \/ StripReturn

SpecComments == InitComments /\ [][NextComments]_vars

(***************************************************************************)
(* scanFunctionArgs(src) for the sources of ScanSources                    *)
(***************************************************************************)
InitScan ==
    /\ src \in ScanSources
    /\ scan = ScanInit
    /\ ExpandIdle
    /\ WalkIdle
    /\ StripIdle

\* A pass of the loop that consumes the character at i.
ScanChar ==
    /\ scan.pc = "scan"
    /\ ScanStep(src, scan).pc = "scan"
    /\ scan' = ScanStep(src, scan)
    /\ UNCHANGED <<src, expandVars, walkVars, commentVars>>

\* The pass that meets the closing parenthesis and returns.
ScanFound ==
    /\ scan.pc = "scan"
    /\ ScanStep(src, scan).pc = "found"
    /\ scan' = ScanStep(src, scan)
    /\ UNCHANGED <<src, expandVars, walkVars, commentVars>>

\* The end of the loop: return null.
ScanNull ==
    /\ scan.pc = "scan"
    /\ ScanStep(src, scan).pc = "null"
    /\ scan' = ScanStep(src, scan)
    /\ UNCHANGED <<src, expandVars, walkVars, commentVars>>

NextScan == ScanChar \/ ScanFound \/ ScanNull

SpecScan == InitScan /\ [][NextScan]_vars

(***************************************************************************)
(* expandMacros(text, xmacros) for the inputs of ExpandInputs: the reduce  *)
(* over the table and, for a function-like entry, the while loop of        *)
(* expandFunctionMacro, one pass a step.  The calls a step makes (the      *)
(* expansion of the arguments, the rescan) are part of the step.           *)
(***************************************************************************)
InitExpand ==
    /\ \E in \in ExpandInputs : text = in.text /\ xmacros = in.macros
    /\ k = 1
    /\ result = text
    /\ expanded = <<>>
    /\ current = <<>>
    /\ seen = {}
    /\ xpc = "reduce"
    /\ xmsg = <<>>
    /\ reexp = FALSE
    /\ last = NoLast
    /\ ScanIdle
    /\ WalkIdle
    /\ StripIdle

\* The effect of ObjStep, r being what expandObjectMacro came to.
ObjStepTo(r) ==
    /\ xpc' = IF r.st = "ok" THEN "reduce" ELSE r.st
    /\ result' = IF r.st = "ok" THEN r.text ELSE result
    /\ k' = IF r.st = "ok" THEN k + 1 ELSE k
    /\ xmsg' = r.msg
    /\ reexp' = (reexp \/ r.reexp)

\* The reduce meets an object-like macro: expandObjectMacro.
ObjStep ==
    /\ xpc = "reduce"
    /\ k <= Len(xmacros)
    /\ ~xmacros[k].isFn
    /\ ObjStepTo(expandObjectMacro(xmacros, xmacros[k].name, xmacros[k], result))
    /\ last' = [NoLast EXCEPT !.kind = "obj", !.name = xmacros[k].name,
                              !.before = result, !.acc = xmacros[k].body]
    /\ UNCHANGED <<text, xmacros, expanded, current, seen, scanVars, walkVars, commentVars>>

\* The reduce meets a function-like macro: expandFunctionMacro is entered.
FnEnter ==
    /\ xpc = "reduce"
    /\ k <= Len(xmacros)
    /\ xmacros[k].isFn
    /\ xpc' = "loop"
    /\ expanded' = <<>>
    /\ current' = result
    /\ seen' = {}
    /\ last' = [NoLast EXCEPT !.kind = "enter", !.name = xmacros[k].name,
                              !.before = result]
    /\ UNCHANGED <<text, xmacros, k, result, xmsg, reexp, scanVars, walkVars, commentVars>>

\* The effect of FnIter, step being what the pass came to.
FnIterTo(step) ==
    /\ xpc' = IF step.st = "ok" THEN "loop" ELSE step.st
    /\ expanded' = step.expanded
    /\ current' = step.current
    /\ xmsg' = step.msg
    /\ reexp' = (reexp \/ step.reexp)
    /\ last' = [kind |-> "iter", name |-> xmacros[k].name,
                before |-> current, acc |-> expanded, step |-> step]

\* One pass of the while loop: the first call of the macro in `current`.
FnIter ==
    /\ xpc = "loop"
    /\ FnExec(current, xmacros[k].name).index # -1
    /\ Plain(current) \notin seen
    /\ FnIterTo(FnStep(xmacros, xmacros[k].name, xmacros[k], expanded, current))
    /\ seen' = seen \cup {Plain(current)}
    /\ UNCHANGED <<text, xmacros, k, result, scanVars, walkVars, commentVars>>

\* The loop is back at a value of `current` it started a pass from before:
\* as a pass depends on `current` alone, the loop never ends.
FnDiverge ==
    /\ xpc = "loop"
    /\ FnExec(current, xmacros[k].name).index # -1
    /\ Plain(current) \in seen
    /\ xpc' = "diverges"
    /\ last' = [NoLast EXCEPT !.kind = "diverge", !.name = xmacros[k].name,
                              !.before = current]
    /\ UNCHANGED <<text, xmacros, k, result, expanded, current, seen, xmsg,
                   reexp, scanVars, walkVars, commentVars>>

\* No call is left: expandFunctionMacro returns expanded + current.
FnExit ==
    /\ xpc = "loop"
    /\ FnExec(current, xmacros[k].name).index = -1
    /\ result' = expanded \o current
    /\ k' = k + 1
    /\ xpc' = "reduce"
    /\ last' = [NoLast EXCEPT !.kind = "exit", !.name = xmacros[k].name,
                              !.before = current]
    /\ UNCHANGED <<text, xmacros, expanded, current, seen, xmsg, reexp, scanVars, walkVars, commentVars>>

\* The reduce is over: expandMacros returns result.
Finish ==
    /\ xpc = "reduce"
    /\ k > Len(xmacros)
    /\ xpc' = "done"
    /\ last' = [NoLast EXCEPT !.kind = "finish", !.before = result]
    /\ UNCHANGED <<text, xmacros, k, result, expanded, current, seen, xmsg,
                   reexp, scanVars, walkVars, commentVars>>

NextExpand == ObjStep \/ FnEnter \/ FnIter \/ FnDiverge \/ FnExit \/ Finish

SpecExpand == InitExpand /\ [][NextExpand]_vars


(***************************************************************************)
(* preprocessAst(program, options): the visit of the tree in source order, *)
(* one handler a step.  The visitor is not part of preprocessor.ts; what   *)
(* it does with a node that a handler has replaced, removed or left alone  *)
(* is taken from the specification: the body put in place of a conditional *)
(* is visited in its place, and the visit goes into a node left alone.     *)
(***************************************************************************)
Init ==
    /\ \/ program \in Programs /\ options \in OptionSets
       \/ /\ program \in ExpressionPrograms \cup IdentifierPrograms
          /\ options = Options(<<>>, {}, FALSE)
    /\ macros = SeedMacros(options.defines)
    /\ todo = program
    /\ out = <<>>
    /\ wpc = "walk"
    /\ wmsg = <<>>
    /\ hist = <<>>
    /\ uses = <<>>
    /\ wlast = NoHandler
    /\ ScanIdle
    /\ ExpandIdle
    /\ StripIdle

\* The visitor enters a node of the given type.
Enters(type) == wpc = "walk" /\ todo # <<>> /\ todo[1].type = type

\* path.remove(): the node leaves the tree.
Remove == todo' = Tail(todo) /\ out' = out

\* The node stays in the tree as n, and has no child with a handler.
Keep(n) == todo' = Tail(todo) /\ out' = Append(out, n)

\* path.replaceWith(body): the nodes of body are visited in place of the node.
ReplaceWith(body) == todo' = body \o Tail(todo) /\ out' = out

\* The nodes of the branches of a conditional, in source order.
RECURSIVE BranchNodes(_)
BranchNodes(parts) ==
    IF parts = <<>> THEN <<>> ELSE Head(parts).body \o BranchNodes(Tail(parts))

\* The conditional stays in the tree as n, and the visit goes into it.
KeepConditional(n) ==
    /\ todo' = BranchNodes(n.ifPart \o n.elseIfParts \o n.elsePart) \o Tail(todo)
    /\ out' = Append(out, n)

\* !preserveNode(path) && path.remove()
RemoveUnlessPreserved ==
    IF preserveNode(options.preserve, todo[1]) THEN Keep(todo[1]) ELSE Remove

Handled(kind) == wlast' = [NoHandler EXCEPT !.kind = kind, !.node = todo[1]]

\* A directive entered: op is "define" or "undef".
Directive(op, node) == [op |-> op, macro |-> MacroOfNode(node)]

\* An expansion made under the table as it stands.
Use(kind) == [kind |-> kind, env |-> macros, at |-> Len(hist)]

\* ConditionalTo with the nodes of every branch visited in place of the node.
ConditionalToEveryBranch(r) ==
    /\ wpc' = IF r.sel.st = "ok" THEN "walk" ELSE r.sel.st
    /\ wmsg' = r.sel.msg
    /\ IF r.sel.st # "ok" THEN UNCHANGED <<todo, out>>
       ELSE ReplaceWith(BranchNodes(r.node.ifPart \o r.node.elseIfParts
                                    \o r.node.elsePart))
    /\ wlast' = [kind |-> "conditional", preserved |-> FALSE, sel |-> r.sel,
                 node |-> r.node, entered |-> todo[1], rest |-> Tail(todo)]

\* The effect of the conditional handler, r being what conditionalEnter came to.
ConditionalTo(r) ==
    /\ wpc' = IF r.sel.st = "ok" THEN "walk" ELSE r.sel.st
    /\ wmsg' = r.sel.msg
    /\ IF r.sel.st # "ok" THEN UNCHANGED <<todo, out>>
       ELSE IF r.sel.calls # <<>> THEN ReplaceWith(r.sel.calls[Len(r.sel.calls)])
       ELSE IF r.sel.removed THEN Remove
       ELSE KeepConditional(r.node)
    /\ wlast' = [kind |-> "conditional", preserved |-> FALSE, sel |-> r.sel,
                 node |-> r.node, entered |-> todo[1], rest |-> Tail(todo)]

\* conditional.enter
Conditional ==
    /\ Enters("conditional")
    /\ IF preserveNode(options.preserve, todo[1])
       THEN /\ KeepConditional(todo[1])
            /\ wlast' = [NoHandler EXCEPT !.kind = "conditional",
                                          !.preserved = TRUE, !.node = todo[1]]
            /\ UNCHANGED <<wpc, wmsg, uses>>
       ELSE /\ ConditionalTo(conditionalEnter(macros, todo[1]))
            /\ uses' = Append(uses, Use("conditional"))
    /\ UNCHANGED <<program, options, macros, hist, scanVars, expandVars, commentVars>>

\* The effect of the text handler, r being what expandMacros came to.
TextTo(r) ==
    /\ wpc' = IF r.st = "ok" THEN "walk" ELSE r.st
    /\ wmsg' = r.msg
    /\ IF r.st = "ok" THEN Keep([todo[1] EXCEPT !.text = r.text])
       ELSE UNCHANGED <<todo, out>>

\* text.enter with a `without` that deletes the key from the table it is
\* given: the name hidden for the rescan of the first macro stays hidden.
TextDeletingHidden ==
    /\ Enters("text")
    /\ TextTo(expandMacros(todo[1].text, macros))
    /\ uses' = Append(uses, Use("text"))
    /\ Handled("text")
    /\ macros' = IF macros = <<>> THEN macros ELSE without(macros, Head(macros).name)
    /\ UNCHANGED <<program, options, hist, scanVars, expandVars, commentVars>>

\* text.enter
Text ==
    /\ Enters("text")
    /\ TextTo(expandMacros(todo[1].text, macros))
    /\ uses' = Append(uses, Use("text"))
    /\ Handled("text")
    /\ UNCHANGED <<program, options, macros, hist, scanVars, expandVars, commentVars>>

\* define_arguments.enter
DefineArguments ==
    /\ Enters("define_arguments")
    /\ macros' = SetMacro(macros, MacroOfNode(todo[1]))
    /\ RemoveUnlessPreserved
    /\ hist' = Append(hist, Directive("define", todo[1]))
    /\ Handled("define_arguments")
    /\ UNCHANGED <<program, options, wpc, wmsg, uses, scanVars, expandVars, commentVars>>

\* define.enter with the update of the table skipped for a preserved node
DefineUnlessPreserved ==
    /\ Enters("define")
    /\ macros' = IF preserveNode(options.preserve, todo[1]) THEN macros
                 ELSE SetMacro(macros, MacroOfNode(todo[1]))
    /\ RemoveUnlessPreserved
    /\ hist' = Append(hist, Directive("define", todo[1]))
    /\ Handled("define")
    /\ UNCHANGED <<program, options, wpc, wmsg, uses, scanVars, expandVars, commentVars>>

\* define.enter
Define ==
    /\ Enters("define")
    /\ macros' = SetMacro(macros, MacroOfNode(todo[1]))
    /\ RemoveUnlessPreserved
    /\ hist' = Append(hist, Directive("define", todo[1]))
    /\ Handled("define")
    /\ UNCHANGED <<program, options, wpc, wmsg, uses, scanVars, expandVars, commentVars>>

\* undef.enter
Undef ==
    /\ Enters("undef")
    /\ macros' = DeleteMacro(macros, todo[1].identifier)
    /\ RemoveUnlessPreserved
    /\ hist' = Append(hist, Directive("undef", todo[1]))
    /\ Handled("undef")
    /\ UNCHANGED <<program, options, wpc, wmsg, uses, scanVars, expandVars, commentVars>>

\* error.enter without the test of options.stopOnError
ErrorNeverStops ==
    /\ Enters("error")
    /\ RemoveUnlessPreserved
    /\ UNCHANGED <<wpc, wmsg>>
    /\ Handled("error")
    /\ UNCHANGED <<program, options, macros, hist, uses, scanVars, expandVars, commentVars>>

\* error.enter
Error ==
    /\ Enters("error")
    /\ IF options.stopOnError
       THEN /\ wpc' = "threw"
            /\ wmsg' = Plain(todo[1].message)
            /\ UNCHANGED <<todo, out>>
       ELSE /\ RemoveUnlessPreserved
            /\ UNCHANGED <<wpc, wmsg>>
    /\ Handled("error")
    /\ UNCHANGED <<program, options, macros, hist, uses, scanVars, expandVars, commentVars>>

\* pragma.enter
Pragma ==
    /\ Enters("pragma")
    /\ RemoveUnlessPreserved
    /\ Handled("pragma")
    /\ UNCHANGED <<program, options, macros, wpc, wmsg, hist, uses, scanVars,
                   expandVars, commentVars>>

\* version.enter
Version ==
    /\ Enters("version")
    /\ RemoveUnlessPreserved
    /\ Handled("version")
    /\ UNCHANGED <<program, options, macros, wpc, wmsg, hist, uses, scanVars,
                   expandVars, commentVars>>

\* extension.enter
Extension ==
    /\ Enters("extension")
    /\ RemoveUnlessPreserved
    /\ Handled("extension")
    /\ UNCHANGED <<program, options, macros, wpc, wmsg, hist, uses, scanVars,
                   expandVars, commentVars>>

\* line.enter
Line ==
    /\ Enters("line")
    /\ RemoveUnlessPreserved
    /\ Handled("line")
    /\ UNCHANGED <<program, options, macros, wpc, wmsg, hist, uses, scanVars,
                   expandVars, commentVars>>

\* The visit is over: preprocessAst returns the program.
Return ==
    /\ wpc = "walk"
    /\ todo = <<>>
    /\ wpc' = "done"
    /\ wlast' = [NoHandler EXCEPT !.kind = "return"]
    /\ UNCHANGED <<program, options, macros, todo, out, wmsg, hist, uses,
                   scanVars, expandVars, commentVars>>

Next ==
    \/ Conditional \/ Text \/ DefineArguments \/ Define \/ Undef \/ Error
    \/ Pragma \/ Version \/ Extension \/ Line \/ Return

Spec == Init /\ [][Next]_vars

(***************************************************************************)
(* The arguments of a call, said without the scanner.  The depth of a      *)
(* position is the number of "(" less the number of ")" up to it; the      *)
(* call is closed by the first ")" at depth -1; its arguments are the      *)
(* pieces between the commas at depth 0 before that ")".                   *)
(***************************************************************************)
DepthAt(s, j) ==
    Cardinality({ i \in 1..j : s[i].c = "(" })
    - Cardinality({ i \in 1..j : s[i].c = ")" })

\* The position of the closing parenthesis, if there is one.
ClosingParens(s) ==
    { j \in 1..Len(s) : DepthAt(s, j) = -1 /\ \A i \in 1..(j - 1) : DepthAt(s, i) >= 0 }

TopLevelCommas(s, close) ==
    { j \in 1..(close - 1) : s[j].c = "," /\ DepthAt(s, j) = 0 }

NestedCommas(s, close) ==
    { j \in 1..(close - 1) : s[j].c = "," /\ DepthAt(s, j) > 0 }

\* The m-th smallest member of a set of numbers.
NthOf(S, m) == CHOOSE x \in S : Cardinality({ y \in S : y < x }) = m - 1

\* The pieces of s between the cuts.
PiecesBetween(s, cuts) ==
    [m \in 1..(Cardinality(cuts) - 1) |->
        SubSeq(s, NthOf(cuts, m) + 1, NthOf(cuts, m + 1) - 1)]

ArgumentsUpTo(s, close, commas) ==
    IF commas = {} /\ close = 1 THEN <<>>
    ELSE PiecesBetween(s, {0, close} \cup commas)

\* The arguments of the call whose text after "(" is s; s holds the ")".
ArgumentsOf(s) ==
    ArgumentsUpTo(s, NthOf(ClosingParens(s), 1),
                  TopLevelCommas(s, NthOf(ClosingParens(s), 1)))

(***************************************************************************)
(* C10: scanFunctionArgs stops at the first ")" at depth -1 and returns    *)
(* its index as the length; it returns null only when there is no such     *)
(* ")"; the arguments are the pieces between the commas at depth 0, so k   *)
(* such commas give k + 1 arguments, commas inside nested parentheses stay *)
(* in their argument, and the empty list "()" gives no argument: ")" has   *)
(* 0 arguments, ",)" two empty ones, "a)" the one argument "a".            *)
(***************************************************************************)
C10_ScanSplitsAtTopLevelCommas ==
    /\ scan.pc = "null" => ClosingParens(src) = {}
    /\ scan.pc = "found" =>
        /\ ClosingParens(src) = {scan.i + 1}
        /\ scan.args = ArgumentsOf(src)
        /\ Len(scan.args) =
             IF scan.i = 0 THEN 0
             ELSE Cardinality(TopLevelCommas(src, scan.i + 1)) + 1
        /\ Plain(src) = <<")">> => scan.args = <<>>
        /\ Plain(src) = <<",", ")">> => scan.args = << <<>>, <<>> >>
        /\ Plain(src) = <<"a", ")">> => scan.args = << Lift("a") >>

\* A scan that has returned, with a comma at depth 0 and one inside nested
\* parentheses before the closing parenthesis.
C10_Witness ==
    /\ scan.pc = "found"
    /\ TopLevelCommas(src, scan.i + 1) # {}
    /\ NestedCommas(src, scan.i + 1) # {}

(***************************************************************************)
(* The call that a pass of expandFunctionMacro's loop works on.            *)
(***************************************************************************)

\* The text of `current` after the match m of the start of a call.
AfterMatch(cur, m) == SubSeq(cur, m.index + m.len + 1, Len(cur))

\* The text after the "(" of the first call of `name` in cur.
CallTail(cur, name) == AfterMatch(cur, FnExec(cur, name))

\* The text matched: the name, white space and "(".
CallHead(cur, m) == SubSeq(cur, m.index + 1, m.index + m.len)

\* The parameters of a function-like macro: its args that are no "," literal.
FormalCount(macro) ==
    Cardinality({ i \in 1..Len(macro.args) :
                    macro.args[i].type # "literal" \/ macro.args[i].literal # "," })

ErrTooMany(name) == <<"'">> \o Chars(name) \o <<"': Too many arguments for macro">>

ErrNotEnough(name) == <<"'">> \o Chars(name) \o <<"': Not enough arguments for macro">>

ErrUnterminated(head) == Plain(head) \o <<" unterminated macro invocation">>

\* The last step was a pass of the loop on a call that is closed.
ClosedCallPass ==
    /\ last.kind = "iter"
    /\ ClosingParens(CallTail(last.before, last.name)) # {}

\* The last step was a pass of the loop on a call that is never closed.
OpenCallPass ==
    /\ last.kind = "iter"
    /\ ClosingParens(CallTail(last.before, last.name)) = {}

(***************************************************************************)
(* C8: a pass of the loop on a closed call of M with more arguments than   *)
(* M has parameters (comma literals not counted) throws "'M': Too many     *)
(* arguments for macro", one with fewer throws "'M': Not enough arguments  *)
(* for macro", and the call is replaced only when the two numbers agree.   *)
(***************************************************************************)
C8_ArityErrors ==
    ClosedCallPass =>
        /\ Len(ArgumentsOf(CallTail(last.before, last.name))) > FormalCount(xmacros[k])
             => xpc = "threw" /\ xmsg = ErrTooMany(last.name)
        /\ Len(ArgumentsOf(CallTail(last.before, last.name))) < FormalCount(xmacros[k])
             => xpc = "threw" /\ xmsg = ErrNotEnough(last.name)
        /\ last.step.st = "ok"
             => Len(ArgumentsOf(CallTail(last.before, last.name)))
                  = FormalCount(xmacros[k])

\* A call with two parameters and three arguments has thrown.
C8_Witness ==
    /\ ClosedCallPass
    /\ FormalCount(xmacros[k]) = 2
    /\ Len(ArgumentsOf(CallTail(last.before, last.name))) = 3
    /\ xpc = "threw"

(***************************************************************************)
(* C9: a pass of the loop on a call of M whose "(" is never balanced by a  *)
(* ")" before the end of the text throws "<M and its (> unterminated macro *)
(* invocation", also when a closed call of M comes later in the text.      *)
(***************************************************************************)
C9_UnterminatedInvocation ==
    OpenCallPass =>
        /\ xpc = "threw"
        /\ xmsg = ErrUnterminated(CallHead(last.before, FnExec(last.before, last.name)))

\* An unterminated call has thrown, and the rest of the text holds a later
\* call of the same macro that is closed.
C9_Witness ==
    /\ OpenCallPass
    /\ xpc = "threw"
    /\ FnExec(CallTail(last.before, last.name), last.name).index # -1
    /\ ClosingParens(CallTail(CallTail(last.before, last.name), last.name)) # {}


(***************************************************************************)
(* C4: expandMacros terminates.  A run in which no call throws (every call *)
(* met is closed and has the right number of arguments) never comes back   *)
(* to a value of `current` that the loop of expandFunctionMacro has        *)
(* started a pass from before.                                             *)
(***************************************************************************)
C4_ExpandMacrosTerminates == xpc # "diverges"

(***************************************************************************)
(* C5: no macro rewrites an occurrence of its name that its own expansion  *)
(* produced, whatever the order of the macros in the table.                *)
(***************************************************************************)
C5_NoExpansionWithinOwnExpansion == ~reexp

(***************************************************************************)
(* Replacement said without String.prototype.replace: every whole-word     *)
(* occurrence of name in text, from position i on, gives way to repl.      *)
(***************************************************************************)
IsWholeWordAt(s, i, name) ==
    /\ OccursAt(s, i, Chars(name))
    /\ ~IsWordAt(s, i - 1)
    /\ ~IsWordAt(s, i + Len(name))

RECURSIVE SpliceAll(_, _, _, _)
SpliceAll(t, i, name, repl) ==
    IF i > Len(t) THEN <<>>
    ELSE IF IsWholeWordAt(t, i, name)
         THEN repl \o SpliceAll(t, i + Len(name), name, repl)
         ELSE <<t[i]>> \o SpliceAll(t, i + 1, name, repl)

\* What expandObjectMacro is to return for a body that expands to scanned.
ObjectExpansion(t, name, scanned) ==
    IF \E i \in 1..Len(t) : IsWholeWordAt(t, i, name)
    THEN Plain(tokenPaste(SpliceAll(t, 1, name, scanned.text)))
    ELSE Plain(t)

(***************************************************************************)
(* C6: expandObjectMacro of M with body B replaces every whole-word        *)
(* occurrence of M in the text by the expansion of B under the table       *)
(* without M (nothing for an empty body), and leaves M alone where it is   *)
(* part of a longer identifier.                                            *)
(***************************************************************************)
C6_ObjectMacroReplacesWholeWords ==
    (last.kind = "obj" /\ xpc = "reduce") =>
        Plain(result) =
            ObjectExpansion(last.before, last.name,
                            expandMacros(last.acc, without(xmacros, last.name)))

(***************************************************************************)
(* C7: after a pass of the loop of expandFunctionMacro has replaced a call *)
(* of M, `current` is the text that followed the closing parenthesis of    *)
(* the call, so the scan goes on after the expansion put in, and           *)
(* `expanded` has grown by the text before the call and the expansion.     *)
(***************************************************************************)
AfterCall(cur, m, tail) ==
    SubSeq(cur, m.index + m.len + NthOf(ClosingParens(tail), 1) + 1, Len(cur))

BeforeCall(cur, m) == SubSeq(cur, 1, m.index)

C7_ScanResumesAfterExpansion ==
    (last.kind = "iter" /\ last.step.st = "ok") =>
        /\ Plain(current) =
             Plain(AfterCall(last.before, FnExec(last.before, last.name),
                             CallTail(last.before, last.name)))
        /\ Plain(expanded) =
             Plain(last.acc \o BeforeCall(last.before, FnExec(last.before, last.name))
                   \o last.step.expandedReplace)


(***************************************************************************)
(* The net effect of the directives h on the seed defines, said without    *)
(* the table: a name is defined when the last directive on it is a #define *)
(* (its macro being the one of that #define), or when no directive is on   *)
(* it and it is a seed define.                                             *)
(***************************************************************************)
SeedEntry(d) ==
    [name |-> d.name, isFn |-> FALSE, args |-> <<>>, body |-> d.body,
     proto |-> FALSE]

LastOn(h, name) == Max({0} \cup { j \in 1..Len(h) : h[j].macro.name = name })

NetEntry(defines, h, name, j) ==
    IF j = 0
    THEN { SeedEntry(defines[i]) : i \in { i \in 1..Len(defines) : defines[i].name = name } }
    ELSE IF h[j].op = "define" THEN { h[j].macro } ELSE {}

NetNames(defines, h) ==
    { defines[i].name : i \in 1..Len(defines) } \cup { h[j].macro.name : j \in 1..Len(h) }

NetEffect(defines, h) ==
    UNION { NetEntry(defines, h, name, LastOn(h, name)) : name \in NetNames(defines, h) }

\* The own entries of a table.
TableEntries(env) == { env[j] : j \in { j \in 1..Len(env) : ~env[j].proto } }

(***************************************************************************)
(* C1: every expansion of a Text node or of the expressions of a           *)
(* conditional is made under the table that holds exactly the seed defines *)
(* and the net effect of the #define and #undef directives entered before  *)
(* it: directives entered later do not change it, a #define of a defined   *)
(* name overwrites it, and a name that was #undef'd is absent until it is  *)
(* defined again.  No name is in the table twice.                          *)
(***************************************************************************)
C1_EnvironmentIsNetEffect ==
    \A j \in 1..Len(uses) :
        /\ TableEntries(uses[j].env)
             = NetEffect(options.defines, SubSeq(hist, 1, uses[j].at))
        /\ \A a, b \in { i \in 1..Len(uses[j].env) : ~uses[j].env[i].proto } :
             uses[j].env[a].name = uses[j].env[b].name => a = b

(***************************************************************************)
(* The branch that a conditional is to be replaced by, said without the    *)
(* reduce: c is the conditional (its expressions expanded), env the table. *)
(***************************************************************************)
IfHolds(c, env) == isTruthy(evaluateIfPart(env, c.ifPart[1]).val)

TrueElseIfs(c, env) ==
    { j \in 1..Len(c.elseIfParts) :
        isTruthy(evaluteExpression(c.elseIfParts[j].expression[1], env).val) }

\* The body to put in place: a sequence of one body, or of none.
BodyToPlace(c, env) ==
    IF IfHolds(c, env) THEN <<c.ifPart[1].body>>
    ELSE IF TrueElseIfs(c, env) # {}
    THEN <<c.elseIfParts[Min(TrueElseIfs(c, env))].body>>
    ELSE IF c.elsePart # <<>> THEN <<c.elsePart[1].body>>
    ELSE <<>>

\* The #elif parts to evaluate: those up to the first one that is true.
ElseIfsToEvaluate(c, env) ==
    IF IfHolds(c, env) THEN <<>>
    ELSE IF TrueElseIfs(c, env) # {}
    THEN [j \in 1..Min(TrueElseIfs(c, env)) |-> j]
    ELSE [j \in 1..Len(c.elseIfParts) |-> j]

RECURSIVE Flatten(_)
Flatten(bodies) ==
    IF bodies = <<>> THEN <<>> ELSE Head(bodies) \o Flatten(Tail(bodies))

\* The handler run last was that of a conditional that is not preserved,
\* and it has returned.
ConditionalSelected ==
    /\ wlast.kind = "conditional"
    /\ ~wlast.preserved
    /\ wlast.sel.st = "ok"

(***************************************************************************)
(* C2: the handler of a conditional that is not preserved calls            *)
(* replaceWith once, with the body of the #if part when that is true, else *)
(* with the body of the first #elif part that is true, else with the body  *)
(* of the #else part; with none of these it removes the node.  The #elif   *)
(* parts after the first true one are not evaluated, and the nodes visited *)
(* in place of the conditional are those of this one body.                 *)
(***************************************************************************)
C2_OneBranchSelected ==
    ConditionalSelected =>
        /\ wlast.sel.calls = BodyToPlace(wlast.node, macros)
        /\ Len(wlast.sel.calls) <= 1
        /\ wlast.sel.removed = (BodyToPlace(wlast.node, macros) = <<>>)
        /\ wlast.sel.evaluated = ElseIfsToEvaluate(wlast.node, macros)
        /\ todo = Flatten(BodyToPlace(wlast.node, macros)) \o wlast.rest

\* The #if part was false and the first of two #elif parts that are both
\* true was taken, the conditional having an #else part as well.
C2_Witness ==
    /\ ConditionalSelected
    /\ ~IfHolds(wlast.node, macros)
    /\ TrueElseIfs(wlast.node, macros) = {1, 2}
    /\ wlast.node.elsePart # <<>>
    /\ wlast.sel.evaluated = <<1>>

(***************************************************************************)
(* C3: when no conditional is preserved, the tree that preprocessAst       *)
(* returns holds no conditional, and no node is left to visit: the         *)
(* conditionals inside a body put in place were resolved as well.          *)
(***************************************************************************)
C3_NoConditionalRemains ==
    (wpc = "done" /\ "conditional" \notin options.preserve) =>
        /\ todo = <<>>
        /\ \A j \in 1..Len(out) : out[j].type # "conditional"

\* A walk is over that resolved a conditional nested in the branch taken of
\* the only conditional of the program's top level.
C3_Witness ==
    /\ wpc = "done"
    /\ "conditional" \notin options.preserve
    /\ Cardinality({ j \in 1..Len(program) : program[j].type = "conditional" }) = 1
    /\ Cardinality({ j \in 1..Len(uses) : uses[j].kind = "conditional" }) = 2

(***************************************************************************)
(* The names of the table as the directives entered so far leave it.       *)
(***************************************************************************)
DefinedNames == { m.name : m \in NetEffect(options.defines, hist) }

\* The handler run last took the #if part of its conditional.
IfPartTaken == wlast.sel.res /\ wlast.sel.evaluated = <<>>

(***************************************************************************)
(* C11: the handler of a conditional that is not preserved takes the       *)
(* branch of `#ifdef X` exactly when X is a seed define or was defined by  *)
(* a #define entered before and not undefined since, and the branch of     *)
(* `#ifndef X` exactly when X is not.                                      *)
(***************************************************************************)
C11_IfdefTestsEnvironment ==
    (ConditionalSelected /\ wlast.entered.ifPart[1].type \in {"ifdef", "ifndef"}) =>
        (IfPartTaken <=>
            ((wlast.entered.ifPart[1].type = "ifdef")
                <=> (wlast.entered.ifPart[1].identifier \in DefinedNames)))

(***************************************************************************)
(* The expressions of a conditional: those of its #if part, when it has    *)
(* one, and of its #elif parts.                                            *)
(***************************************************************************)
PartsOf(node) == node.ifPart \o node.elseIfParts

\* The defined() nodes of an expression.
RECURSIVE DefinedOperands(_)
DefinedOperands(e) ==
    IF e.type = "unary_defined" THEN {e}
    ELSE UNION { DefinedOperands(e.kids[j]) : j \in 1..Len(e.kids) }

\* The expression with every identifier outside defined() expanded.
RECURSIVE IdentifiersExpanded(_, _)
IdentifiersExpanded(e, env) ==
    IF e.type = "unary_defined" THEN e
    ELSE IF e.type = "identifier"
    THEN [e EXCEPT !.identifier = expandMacros(e.identifier, env).text]
    ELSE [e EXCEPT !.kids =
            [j \in 1..Len(e.kids) |-> IdentifiersExpanded(e.kids[j], env)]]

\* The name is one of the table as the directives leave it.
IsDefinedName(name) == \E n \in DefinedNames : Chars(n) = Plain(name)

(***************************************************************************)
(* C12: when the handler of a conditional evaluates, each expression of    *)
(* the conditional is the one entered with every identifier outside        *)
(* defined() replaced by its expansion and every defined(X) left as it     *)
(* was, and defined(X) has the value true exactly when the name X is       *)
(* defined, whatever the body of X.                                        *)
(***************************************************************************)
C12_DefinedOperandNotExpanded ==
    ConditionalSelected =>
        \A j \in 1..Len(PartsOf(wlast.entered)) :
            PartsOf(wlast.entered)[j].expression # <<>> =>
                /\ PartsOf(wlast.node)[j].expression[1]
                     = IdentifiersExpanded(PartsOf(wlast.entered)[j].expression[1],
                                           macros)
                /\ \A d \in DefinedOperands(PartsOf(wlast.entered)[j].expression[1]) :
                     evaluteExpression(d, macros)
                       = EvalOk(BoolVal(IsDefinedName(d.identifier)))

(***************************************************************************)
(* A call of name at position i: the name, not preceded by a word          *)
(* character, then white space or none, then "(".                          *)
(***************************************************************************)
IsCallAt(s, i, name) ==
    /\ OccursAt(s, i, Chars(name))
    /\ ~IsWordAt(s, i - 1)
    /\ \E j \in (i + Len(name))..Len(s) :
          /\ s[j].c = "("
          /\ \A h \in (i + Len(name))..(j - 1) : IsSpaceAt(s, h)

\* The text holds no whole-word occurrence of an object-like macro of the
\* table and no call of a function-like one.
MacroFree(t, env) ==
    \A j \in 1..Len(env) : \A i \in 1..Len(t) :
        IF env[j].isFn THEN ~IsCallAt(t, i, env[j].name)
        ELSE ~IsWholeWordAt(t, i, env[j].name)

(***************************************************************************)
(* C13: on a text that holds no whole-word occurrence of an object-like    *)
(* macro of the table and no call of a function-like one, expandMacros     *)
(* neither fails nor loops, no step of it changes the text, and it returns *)
(* the text as it was given.                                               *)
(***************************************************************************)
C13_MacroFreeTextUnchanged ==
    MacroFree(text, xmacros) =>
        /\ xpc \in {"idle", "reduce", "loop", "done"}
        /\ result = text
        /\ xpc = "loop" => (expanded = <<>> /\ current = text)

\* expandMacros has returned a text that holds the name of an object-like
\* macro inside a longer identifier and the name of a function-like macro
\* without "(" after it.
C13_Witness ==
    /\ xpc = "done"
    /\ MacroFree(text, xmacros)
    /\ \E j \in 1..Len(xmacros) : \E i \in 1..Len(text) :
          ~xmacros[j].isFn /\ OccursAt(text, i, Chars(xmacros[j].name))
    /\ \E j \in 1..Len(xmacros) : \E i \in 1..Len(text) :
          xmacros[j].isFn /\ OccursAt(text, i, Chars(xmacros[j].name))

(***************************************************************************)
(* Token pasting said by positions.  A site is a "##" with white space     *)
(* before it and after it; with a site go the run of white space that ends *)
(* before it and the run that starts after it.                             *)
(***************************************************************************)
PasteSites(s) ==
    { p \in 2..(Len(s) - 2) :
        OccursAt(s, p, <<"#", "#">>) /\ IsSpaceAt(s, p - 1) /\ IsSpaceAt(s, p + 2) }

RunStart(s, p) == Min({ i \in 1..(p - 1) : \A h \in i..(p - 1) : IsSpaceAt(s, h) })

RunEnd(s, p) == Max({ j \in (p + 2)..Len(s) : \A h \in (p + 2)..j : IsSpaceAt(s, h) })

\* A site takes effect unless the white space before it went with a site
\* before it that took effect.
RECURSIVE Effective(_, _)
Effective(s, p) ==
    /\ p \in PasteSites(s)
    /\ \A q \in PasteSites(s) : (q < p /\ RunEnd(s, q) = p - 1) => ~Effective(s, q)

\* The characters of s outside the sites P and their white space.
RECURSIVE KeepOutside(_, _, _)
KeepOutside(s, P, i) ==
    IF i > Len(s) THEN <<>>
    ELSE IF \E p \in P : RunStart(s, p) <= i /\ i <= RunEnd(s, p)
         THEN KeepOutside(s, P, i + 1)
         ELSE <<s[i]>> \o KeepOutside(s, P, i + 1)

PastedAtEffective(s) == KeepOutside(s, { p \in PasteSites(s) : Effective(s, p) }, 1)

PastedAtEvery(s) == KeepOutside(s, PasteSites(s), 1)

\* The body of the macro of the pass with its parameters replaced by the
\* expanded arguments of the call.
SubstitutedBody(cur, name, macro, env) ==
    SubstParams(macro.body, 1,
                [j \in 1..Len(macroArgsOf(macro)) |-> macroArgsOf(macro)[j].identifier],
                [j \in 1..Len(macroArgsOf(macro)) |->
                    expandMacros(Trim(ArgumentsOf(CallTail(cur, name))[j]), env).text])

\* The last step was a pass of the loop that replaced a call.
CallReplaced == last.kind = "iter" /\ last.step.st = "ok"

(***************************************************************************)
(* C14: the text put in place of a call is the rescan (under the table     *)
(* without the macro) of the body in which the parameters were             *)
(* substituted first and then every "##" with white space on both sides,   *)
(* taken from left to right, was removed together with that white space,   *)
(* a "##" whose white space before it went with the "##" before it being   *)
(* left in place.                                                          *)
(***************************************************************************)
C14_TokenPasting ==
    CallReplaced =>
        Plain(last.step.expandedReplace)
          = Plain(expandMacros(
                      PastedAtEffective(
                          SubstitutedBody(last.before, last.name, xmacros[k], xmacros)),
                      without(xmacros, last.name)).text)

\* C14 as stated: every "##" with white space on both sides is removed
\* together with that white space.
C14_EveryPasteSiteRemoved ==
    CallReplaced =>
        Plain(last.step.expandedReplace)
          = Plain(expandMacros(
                      PastedAtEvery(
                          SubstitutedBody(last.before, last.name, xmacros[k], xmacros)),
                      without(xmacros, last.name)).text)

\* A call was replaced whose body, a parameter of it substituted, held
\* three sites that took effect and two that did not, and the pasted text
\* was changed by the rescan.
C14_Witness ==
    /\ CallReplaced
    /\ Plain(SubstitutedBody(last.before, last.name, xmacros[k], xmacros))
         # Plain(xmacros[k].body)
    /\ Cardinality({ p \in PasteSites(SubstitutedBody(last.before, last.name,
                                                      xmacros[k], xmacros)) :
                       Effective(SubstitutedBody(last.before, last.name,
                                                 xmacros[k], xmacros), p) }) = 3
    /\ Cardinality(PasteSites(SubstitutedBody(last.before, last.name,
                                              xmacros[k], xmacros))) = 5
    /\ Plain(last.step.expandedReplace)
         # Plain(PastedAtEffective(SubstitutedBody(last.before, last.name,
                                                  xmacros[k], xmacros)))

(***************************************************************************)
(* The comments of a source, said by search: the first comment starts at   *)
(* the first "//" or "/*"; a line comment runs up to the newline that      *)
(* follows (the newline not being part of it) or to the end, a block       *)
(* comment through the first "*/" after its opening or to the end; the     *)
(* next comment is looked for after the end of this one.                   *)
(***************************************************************************)
Openers(str, fr) ==
    { q \in fr..(Len(str) - 1) : str[q] = "/" /\ str[q + 1] \in {"/", "*"} }

NewlinesAfter(str, q) == { h \in (q + 1)..Len(str) : str[h] = "\n" }

BlockClosers(str, q) ==
    { h \in (q + 2)..(Len(str) - 1) : str[h] = "*" /\ str[h + 1] = "/" }

CommentAt(str, q) ==
    IF str[q + 1] = "/"
    THEN [kind |-> "single", from |-> q, closed |-> TRUE,
          to |-> IF NewlinesAfter(str, q) = {} THEN Len(str)
                 ELSE Min(NewlinesAfter(str, q)) - 1]
    ELSE [kind |-> "multi", from |-> q, closed |-> BlockClosers(str, q) # {},
          to |-> IF BlockClosers(str, q) = {} THEN Len(str)
                 ELSE Min(BlockClosers(str, q)) + 1]

RECURSIVE Comments(_, _)

CommentsWith(str, c) == {c} \cup Comments(str, c.to + 1)

Comments(str, fr) ==
    IF Openers(str, fr) = {} THEN {}
    ELSE CommentsWith(str, CommentAt(str, Min(Openers(str, fr))))

InComment(str, q) == \E c \in Comments(str, 1) : c.from <= q /\ q <= c.to

Newlines(str) == { q \in 1..Len(str) : str[q] = "\n" }

\* preprocessComments has returned.
Stripped == strip.pc = "done"

(***************************************************************************)
(* C15: the text that preprocessComments returns holds as many newlines as *)
(* the source; every newline of the source, those inside comments          *)
(* included, and every character outside the comments is in it unchanged,  *)
(* and its characters are in the order of the source.                      *)
(***************************************************************************)
C15_LineStructurePreserved ==
    Stripped =>
        /\ Cardinality({ j \in 1..Len(strip.out) : strip.out[j].c = "\n" })
             = Cardinality(Newlines(strip.src))
        /\ \A q \in 1..Len(strip.src) :
             (strip.src[q] = "\n" \/ ~InComment(strip.src, q)) =>
                 \E j \in 1..Len(strip.out) :
                     /\ strip.out[j].at = q
                     /\ ~strip.out[j].inserted
                     /\ strip.out[j].c = strip.src[q]
        /\ \A j \in 1..(Len(strip.out) - 1) : strip.out[j].at < strip.out[j + 1].at

\* A source was stripped that holds a block comment over two lines, a line
\* comment, and characters outside the comments before and after them.
C15_Witness ==
    /\ Stripped
    /\ \E c \in Comments(strip.src, 1) :
          c.kind = "multi" /\ \E q \in Newlines(strip.src) : c.from < q /\ q < c.to
    /\ \E c \in Comments(strip.src, 1) : c.kind = "single" /\ c.to < Len(strip.src)
    /\ ~InComment(strip.src, 1)
    /\ ~InComment(strip.src, Len(strip.src))
    /\ strip.src[Len(strip.src)] # "\n"

\* The spaces that stand for the comment c in the text returned.
SpacesFor(c) ==
    { j \in 1..Len(strip.out) :
        strip.out[j].inserted /\ c.from <= strip.out[j].at /\ strip.out[j].at <= c.to }

\* The block comment c is closed on the line it starts on.
OnOneLine(c) ==
    /\ c.kind = "multi" /\ c.closed
    /\ \A q \in Newlines(strip.src) : q < c.from \/ q > c.to

(***************************************************************************)
(* C16: preprocessComments is never inside a line comment and a block      *)
(* comment at once, and its comments do not nest: they are the ones found  *)
(* by taking the first opening and then its own end, whatever "//" or "/*" *)
(* lies between.  Of a comment nothing but its newlines is in the text     *)
(* returned; a block comment closed on the line it starts on gives one     *)
(* space, every other comment gives none.                                  *)
(***************************************************************************)
C16_CommentsDoNotNest ==
    /\ ~(strip.in_single # 0 /\ strip.in_multi # 0)
    /\ Stripped =>
        /\ \A j \in 1..Len(strip.out) :
             IF strip.out[j].inserted
             THEN \E c \in Comments(strip.src, 1) : j \in SpacesFor(c)
             ELSE InComment(strip.src, strip.out[j].at) => strip.out[j].c = "\n"
        /\ \A c \in Comments(strip.src, 1) :
             Cardinality(SpacesFor(c)) = IF OnOneLine(c) THEN 1 ELSE 0

\* A source was stripped that holds "//" inside a block comment closed on
\* its line, "//" inside a block comment over two lines, and the opening of
\* a block comment inside a line comment.
C16_Witness ==
    /\ Stripped
    /\ \E c \in Comments(strip.src, 1) :
          /\ OnOneLine(c)
          /\ \E q \in (c.from + 2)..(c.to - 3) :
                strip.src[q] = "/" /\ strip.src[q + 1] = "/"
    /\ \E c \in Comments(strip.src, 1) :
          /\ c.kind = "multi" /\ c.closed /\ ~OnOneLine(c)
          /\ \E q \in (c.from + 2)..(c.to - 3) :
                strip.src[q] = "/" /\ strip.src[q + 1] = "/"
    /\ \E c \in Comments(strip.src, 1) :
          /\ c.kind = "single"
          /\ \E q \in (c.from + 2)..(c.to - 1) :
                strip.src[q] = "/" /\ strip.src[q + 1] = "*"

(***************************************************************************)
(* The #error nodes among the nodes, in order.                             *)
(***************************************************************************)
ErrorsAmong(nodes) == SelectSeq(nodes, LAMBDA n : n.type = "error")

\* The nodes that the handler run last has put in place of its node.
PutInPlace == SubSeq(todo, 1, Len(todo) - Len(wlast.rest))

\* preprocessAst has failed in the handler of an #error node.
FailedOnError == wpc = "threw" /\ wlast.kind = "error"

\* What the handler of the #error node entered has to come to.
ErrorHandled ==
    IF options.stopOnError
    THEN /\ wpc' = "threw"
         /\ wmsg' = Plain(todo[1].message)
    ELSE /\ wpc' = "walk"
         /\ todo' = Tail(todo)
         /\ out' = IF todo[1].type \in options.preserve
                   THEN Append(out, todo[1]) ELSE out

(***************************************************************************)
(* C17: with stopOnError, the handler of an #error node makes preprocessAst*)
(* fail with the message of the node, and no node is visited after a       *)
(* failure, so the failure is that of the first #error node visited; the   *)
(* #error nodes visited in place of a conditional that is not preserved    *)
(* are those of the branch selected only.  Without stopOnError an #error   *)
(* node never makes preprocessAst fail: its handler removes it, or keeps   *)
(* it when it is preserved, and the visit goes on.                         *)
(***************************************************************************)
C17_StopOnError ==
    /\ [](FailedOnError =>
            options.stopOnError /\ wmsg = Plain(wlast.node.message))
    /\ [](ConditionalSelected =>
            ErrorsAmong(PutInPlace)
                = ErrorsAmong(Flatten(BodyToPlace(wlast.node, macros))))
    /\ [][Enters("error") => ErrorHandled]_vars
    /\ [][wpc # "threw"]_vars

\* With stopOnError, preprocessAst has failed on the #error node that
\* follows a conditional whose branch not selected holds an #error node,
\* and another #error node is left unvisited after it.
C17_Witness ==
    /\ FailedOnError
    /\ Len(program) = 3
    /\ program[1].type = "conditional"
    /\ ErrorsAmong(program[1].ifPart[1].body) # <<>>
    /\ wlast.node = program[2]
    /\ todo = <<program[2], program[3]>>
    /\ program[3].type = "error"

(***************************************************************************)
(* The walk that preserves nothing, as a function of the nodes to visit    *)
(* and the table: it gives the texts that the Text nodes are expanded to,  *)
(* in order, up to the end of the walk or its failure in an expansion, and *)
(* the table it ends with.  #error nodes are taken without stopOnError.    *)
(***************************************************************************)
RECURSIVE PlainWalk(_, _, _)

PlainWalkText(r, rest, env, texts) ==
    IF r.st = "ok" THEN PlainWalk(rest, env, Append(texts, Plain(r.text)))
    ELSE [env |-> env, texts |-> texts, st |-> r.st]

PlainWalkConditional(r, rest, env, texts) ==
    IF r.sel.st # "ok" THEN [env |-> env, texts |-> texts, st |-> r.sel.st]
    ELSE IF r.sel.calls # <<>>
    THEN PlainWalk(r.sel.calls[Len(r.sel.calls)] \o rest, env, texts)
    ELSE PlainWalk(rest, env, texts)

PlainWalk(nodes, env, texts) ==
    IF nodes = <<>> THEN [env |-> env, texts |-> texts, st |-> "done"]
    ELSE IF nodes[1].type = "text"
    THEN PlainWalkText(expandMacros(nodes[1].text, env), Tail(nodes), env, texts)
    ELSE IF nodes[1].type = "conditional"
    THEN PlainWalkConditional(conditionalEnter(env, nodes[1]), Tail(nodes),
                              env, texts)
    ELSE IF nodes[1].type \in {"define", "define_arguments"}
    THEN PlainWalk(Tail(nodes), SetMacro(env, MacroOfNode(nodes[1])), texts)
    ELSE IF nodes[1].type = "undef"
    THEN PlainWalk(Tail(nodes), DeleteMacro(env, nodes[1].identifier), texts)
    ELSE PlainWalk(Tail(nodes), env, texts)

\* The texts of the Text nodes among the nodes, in order.
RECURSIVE TextsAmong(_)
TextsAmong(nodes) ==
    IF nodes = <<>> THEN <<>>
    ELSE (IF nodes[1].type = "text" THEN <<Plain(nodes[1].text)>> ELSE <<>>)
         \o TextsAmong(Tail(nodes))

DirectiveTypes == { "define", "define_arguments", "undef" }

\* What the handler of the directive entered has to do to the tree.
DirectiveKeptOrRemoved ==
    /\ todo' = Tail(todo)
    /\ out' = IF todo[1].type \in options.preserve
              THEN Append(out, todo[1]) ELSE out

\* A walk without stopOnError that resolves its conditionals is over.
DirectivesWalked ==
    /\ wpc \in {"done", "threw", "diverges"}
    /\ ~options.stopOnError
    /\ "conditional" \notin options.preserve

(***************************************************************************)
(* C18: the handler of a #define, a function-like #define or an #undef     *)
(* leaves the node in the tree when it is preserved and removes it when it *)
(* is not; whichever it does, the walk expands its Text nodes to the texts *)
(* that the walk preserving nothing expands them to, fails where that walk *)
(* fails, and ends with the table that walk ends with.                     *)
(***************************************************************************)
C18_PreservedDirectivesUpdate ==
    /\ [][(wpc = "walk" /\ todo # <<>> /\ todo[1].type \in DirectiveTypes)
            => DirectiveKeptOrRemoved]_vars
    /\ [](DirectivesWalked =>
            /\ TextsAmong(out)
                 = PlainWalk(program, SeedMacros(options.defines), <<>>).texts
            /\ wpc = PlainWalk(program, SeedMacros(options.defines), <<>>).st
            /\ wpc = "done" =>
                 macros = PlainWalk(program, SeedMacros(options.defines), <<>>).env)

\* A walk that preserves its directives is over: the tree holds a #define
\* followed by a Text node expanded to the body of that #define, and an
\* #undef of the same name followed by a Text node left as the name.
C18_Witness ==
    /\ wpc = "done"
    /\ DirectiveTypes \subseteq options.preserve
    /\ "conditional" \notin options.preserve
    /\ \E h \in 1..Len(out), i \in 1..Len(out), j \in 1..Len(out), l \in 1..Len(out) :
          /\ h < i /\ i < j /\ j < l
          /\ out[h].type = "define" /\ out[h].body # <<>>
          /\ out[i].type = "text" /\ Plain(out[i].text) = Plain(out[h].body)
          /\ out[j].type = "undef" /\ out[j].identifier = out[h].identifier
          /\ out[l].type = "text" /\ Plain(out[l].text) = Chars(out[h].identifier)

(***************************************************************************)
(* The calls of name in the text s: the places where the name stands, not  *)
(* inside a longer identifier, with nothing but white space (blanks, tabs, *)
(* newlines) between it and a "(".                                         *)
(***************************************************************************)
CallsOf(s, name) == { i \in 1..Len(s) : IsCallAt(s, i, name) }

\* The place of the first call, 0-based, or -1.
FirstCall(s, name) == IF CallsOf(s, name) = {} THEN -1 ELSE Min(CallsOf(s, name)) - 1

\* The place of the "(" of the call at i.
ParenOf(s, i, name) ==
    Min({ j \in (i + Len(name))..Len(s) : s[j].c = "(" })

\* The length of the call at the 0-based place i, from the name to its "(".
CallLen(s, i, name) == IF i = -1 THEN 0 ELSE ParenOf(s, i + 1, name) - i

(***************************************************************************)
(* C19: the loop of expandFunctionMacro takes as a call the first place of *)
(* `current` where the name of the macro is followed by "(", white space   *)
(* and newlines between them allowed, and no other place.  With no such    *)
(* place it returns `current` as it is behind what it has expanded; with   *)
(* one, the text before the call is carried over as it is and the call is  *)
(* replaced by its expansion.                                              *)
(***************************************************************************)
C19_CallNeedsParenthesis ==
    /\ xpc = "loop" =>
         /\ FnExec(current, xmacros[k].name).index
              = FirstCall(current, xmacros[k].name)
         /\ FnExec(current, xmacros[k].name).len
              = CallLen(current, FirstCall(current, xmacros[k].name),
                        xmacros[k].name)
    /\ last.kind = "exit" =>
         /\ CallsOf(last.before, last.name) = {}
         /\ result = expanded \o last.before
    /\ (last.kind = "iter" /\ last.step.st = "ok") =>
         Plain(expanded)
           = Plain(last.acc
                   \o SubSeq(last.before, 1, FirstCall(last.before, last.name))
                   \o last.step.expandedReplace)

\* The first call of name in s, as the place of the name and the length up
\* to its "(".
CallAt(s, name) ==
    [index |-> FirstCall(s, name), len |-> CallLen(s, FirstCall(s, name), name)]

\* The text of s behind the closing parenthesis of its first call of name.
BehindCall(s, name) ==
    AfterCall(s, CallAt(s, name), AfterMatch(s, CallAt(s, name)))

(***************************************************************************)
(* C20: a pass of the loop of expandFunctionMacro that expands a call of M *)
(* puts the expansion in the place of the characters from the start of the *)
(* call to its closing parenthesis and of no others: the text it goes on   *)
(* with, what it has expanded so far included, is the text before the      *)
(* call, the expansion, and the text behind the closing parenthesis.       *)
(***************************************************************************)
C20_CallReplacedInPlace ==
    (last.kind = "iter" /\ last.step.st = "ok") =>
        Plain(expanded \o current)
          = Plain(last.acc
                  \o SubSeq(last.before, 1, FirstCall(last.before, last.name))
                  \o last.step.expandedReplace
                  \o BehindCall(last.before, last.name))

(***************************************************************************)
(* Substitution said word by word: the body is cut into its words (the     *)
(* longest runs of word characters) and the characters between them; a     *)
(* word that is the name of a parameter gives the argument of that         *)
(* parameter, everything else gives itself.                                *)
(***************************************************************************)
WordEnd(s, i) == Max({ j \in i..Len(s) : \A h \in i..j : IsWordAt(s, h) })

ParamsNamed(params, w) == { j \in 1..Len(params) : Chars(params[j]) = Plain(w) }

WordOrArgument(params, vals, w) ==
    IF ParamsNamed(params, w) = {} THEN w ELSE vals[Min(ParamsNamed(params, w))]

RECURSIVE SubstituteWords(_, _, _, _)
SubstituteWords(s, i, params, vals) ==
    IF i > Len(s) THEN <<>>
    ELSE IF ~IsWordAt(s, i) THEN <<s[i]>> \o SubstituteWords(s, i + 1, params, vals)
    ELSE WordOrArgument(params, vals, SubSeq(s, i, WordEnd(s, i)))
         \o SubstituteWords(s, WordEnd(s, i) + 1, params, vals)

\* The names of the parameters of a macro.
ParamsOf(macro) ==
    [j \in 1..Len(macroArgsOf(macro)) |-> macroArgsOf(macro)[j].identifier]

\* The arguments of the first call of name in cur, trimmed and expanded.
ExpandedArguments(cur, name, macro, env) ==
    [j \in 1..Len(macroArgsOf(macro)) |->
        expandMacros(Trim(ArgumentsOf(CallTail(cur, name))[j]), env).text]

\* The body of the macro with every word that names a parameter replaced.
SubstitutedAtOnce(cur, name, macro, env) ==
    SubstituteWords(macro.body, 1, ParamsOf(macro),
                    ExpandedArguments(cur, name, macro, env))

(***************************************************************************)
(* C21: the text put in place of a call comes from the body in which each  *)
(* word that is the name of a parameter was replaced by the expanded       *)
(* argument of that parameter, all of them at once: no name of a parameter *)
(* inside an argument put in is replaced.                                  *)
(***************************************************************************)
C21_SubstitutionIsSimultaneous ==
    CallReplaced =>
        Plain(last.step.expandedReplace)
          = Plain(expandMacros(
                      tokenPaste(SubstitutedAtOnce(last.before, last.name,
                                                   xmacros[k], xmacros)),
                      without(xmacros, last.name)).text)

\* A call of a macro of two parameters was replaced, the argument of each
\* holding the name of the other as a word, and the body holding the names
\* of the parameters inside longer words as well.
C21_Witness ==
    /\ CallReplaced
    /\ Len(ParamsOf(xmacros[k])) = 2
    /\ ObjTest(ExpandedArguments(last.before, last.name, xmacros[k], xmacros)[1],
               ParamsOf(xmacros[k])[2])
    /\ ObjTest(ExpandedArguments(last.before, last.name, xmacros[k], xmacros)[2],
               ParamsOf(xmacros[k])[1])
    /\ \E i \in 1..Len(xmacros[k].body) :
          /\ OccursAt(xmacros[k].body, i, Chars(ParamsOf(xmacros[k])[1]))
          /\ ~ObjMatchAt(xmacros[k].body, i, ParamsOf(xmacros[k])[1])
    /\ Plain(last.step.expandedReplace) = Chars("ab(b a)a b.a_b a b")

(***************************************************************************)
(* An argument without the white space at its ends, and a table without    *)
(* the entry of a name.                                                    *)
(***************************************************************************)
RECURSIVE StripLeft(_)
StripLeft(s) == IF s # <<>> /\ IsSpaceAt(s, 1) THEN StripLeft(Tail(s)) ELSE s

RECURSIVE StripRight(_)
StripRight(s) ==
    IF s # <<>> /\ IsSpaceAt(s, Len(s)) THEN StripRight(SubSeq(s, 1, Len(s) - 1))
    ELSE s

Hiding(env, name) == SelectSeq(env, LAMBDA m : m.name # name)

\* The arguments of the first call of name in cur, as they stand in the text.
RawArguments(cur, name) == ArgumentsOf(CallTail(cur, name))

\* What expandMacros comes to for each argument, trimmed, under env.
ArgumentResults(cur, name, macro, env) ==
    [j \in 1..Len(macroArgsOf(macro)) |->
        expandMacros(StripRight(StripLeft(RawArguments(cur, name)[j])), env)]

ArgumentsFailing(cur, name, macro, env) ==
    { j \in 1..Len(macroArgsOf(macro)) :
        ArgumentResults(cur, name, macro, env)[j].st # "ok" }

\* The body with the texts of the argument results put in for the parameters.
BodyWith(macro, res) ==
    SubstParams(macro.body, 1, ParamsOf(macro),
                [j \in 1..Len(res) |-> res[j].text])

\* The last step was a pass on a closed call with as many arguments as the
\* macro has parameters.
CallPassed ==
    /\ last.kind = "iter"
    /\ ~last.step.st = "diverges"
    /\ ClosingParens(CallTail(last.before, last.name)) # {}
    /\ Len(RawArguments(last.before, last.name)) = Len(macroArgsOf(xmacros[k]))

(***************************************************************************)
(* C22: a pass of expandFunctionMacro expands every argument of the call,  *)
(* the white space at its ends taken off, under the table it was given,    *)
(* the macro itself included, before it substitutes: when the expansion of *)
(* an argument fails the pass fails with it, and otherwise the text put in *)
(* place is the rescan, under the table without the macro, of the body     *)
(* with the expanded arguments put in.                                     *)
(***************************************************************************)
C22_ArgumentsExpandedFirst ==
    CallPassed =>
        IF ArgumentsFailing(last.before, last.name, xmacros[k], xmacros) # {}
        THEN /\ last.step.st = "threw"
             /\ last.step.msg
                  = ArgumentResults(last.before, last.name, xmacros[k], xmacros)
                        [Min(ArgumentsFailing(last.before, last.name,
                                              xmacros[k], xmacros))].msg
        ELSE /\ last.step.st
                  = expandMacros(
                        tokenPaste(BodyWith(xmacros[k],
                            ArgumentResults(last.before, last.name,
                                            xmacros[k], xmacros))),
                        Hiding(xmacros, last.name)).st
             /\ last.step.st = "ok" =>
                  Plain(last.step.expandedReplace)
                    = Plain(expandMacros(
                                tokenPaste(BodyWith(xmacros[k],
                                    ArgumentResults(last.before, last.name,
                                                    xmacros[k], xmacros))),
                                Hiding(xmacros, last.name)).text)

\* A call was replaced that has a call of the same macro in its first
\* argument and white space at the start of its second: `foo (foo (a, X), c)`
\* has given `a + Z + c`.
C22_Witness ==
    /\ CallReplaced
    /\ Len(macroArgsOf(xmacros[k])) = 2
    /\ CallsOf(RawArguments(last.before, last.name)[1], last.name) # {}
    /\ IsSpaceAt(RawArguments(last.before, last.name)[2], 1)
    /\ Plain(last.step.expandedReplace) = Chars("a + Z + c")

(***************************************************************************)
(* The table along the program, said by the structure of the tree: a       *)
(* directive changes the table, a conditional hands the table on to the    *)
(* nodes of its selected branch and hands the table that these leave on to *)
(* the nodes after it; the other branches are not looked at.  st holds the *)
(* table and the tables that the Text nodes met so far were met with.      *)
(***************************************************************************)
SelectedBody(c, env) == Flatten(BodyToPlace(conditionalEnter(env, c).node, env))

RECURSIVE EnvAlong(_, _)

EnvAt(n, st) ==
    IF n.type = "text" THEN [st EXCEPT !.at = Append(@, st.env)]
    ELSE IF n.type \in {"define", "define_arguments"}
    THEN [st EXCEPT !.env = SetMacro(@, MacroOfNode(n))]
    ELSE IF n.type = "undef"
    THEN [st EXCEPT !.env = DeleteMacro(@, n.identifier)]
    ELSE IF n.type = "conditional" THEN EnvAlong(SelectedBody(n, st.env), st)
    ELSE st

EnvAlong(nodes, st) ==
    IF nodes = <<>> THEN st ELSE EnvAlong(Tail(nodes), EnvAt(nodes[1], st))

\* The tables that the Text nodes were expanded under, in order.
RECURSIVE TextTables(_)
TextTables(us) ==
    IF us = <<>> THEN <<>>
    ELSE (IF us[1].kind = "text" THEN <<us[1].env>> ELSE <<>>)
         \o TextTables(Tail(us))

\* A walk that resolves its conditionals has returned.
ResolvedWalkDone == wpc = "done" /\ "conditional" \notin options.preserve

(***************************************************************************)
(* C23: in a walk that resolves its conditionals, the #define and #undef   *)
(* directives of the branch selected change the table and the change stays *)
(* for the nodes after the conditional, and those of the other branches    *)
(* change nothing: every Text node is expanded under the table that the    *)
(* directives before it on the selected path have left, and so is the      *)
(* table at the end; the table changes in the handlers of the directives   *)
(* only.                                                                   *)
(***************************************************************************)
C23_BranchDirectivesPersist ==
    /\ [](ResolvedWalkDone =>
            /\ macros = EnvAlong(program, [env |-> SeedMacros(options.defines),
                                           at |-> <<>>]).env
            /\ TextTables(uses)
                 = EnvAlong(program, [env |-> SeedMacros(options.defines),
                                      at |-> <<>>]).at)
    /\ [][macros' # macros =>
            (wpc = "walk" /\ todo # <<>> /\ todo[1].type \in DirectiveTypes)]_vars

\* A walk is over whose program is a conditional with two #elif parts that
\* hold directives and a Text node after it: the only directive entered is
\* a #define of a branch, and the Text node was expanded to its body.
C23_Witness ==
    /\ ResolvedWalkDone
    /\ Len(program) = 2
    /\ program[1].type = "conditional"
    /\ Len(program[1].elseIfParts) = 2
    /\ \A j \in 1..2 : \E n \in 1..Len(program[1].elseIfParts[j].body) :
          program[1].elseIfParts[j].body[n].type \in DirectiveTypes
    /\ program[2].type = "text"
    /\ Len(hist) = 1
    /\ hist[1].op = "define"
    /\ out # <<>>
    /\ out[Len(out)].type = "text"
    /\ Plain(out[Len(out)].text) = Plain(hist[1].macro.body)
    /\ Plain(out[Len(out)].text) # Plain(program[2].text)


(***************************************************************************)
(* C24: the value of an #if expression of integer constants.               *)
(***************************************************************************)

\* The value of an expression in C: defined tells that the expression has
\* a value, n is the value.
CInt(n) == [defined |-> TRUE, n |-> n]

CUndefined == [defined |-> FALSE, n |-> 0]

CBool(b) == CInt(IF b THEN 1 ELSE 0)

\* x op y in C for integers x and y: the quotient is rounded toward zero,
\* the remainder has the sign of the dividend, a comparison is 1 or 0; a
\* division by zero and a shift of a negative number or by a count outside
\* 0..31 have no value.
CBinary(op, x, y) ==
    CASE op = "*" -> CInt(x * y)
      [] op = "/" -> IF y = 0 THEN CUndefined ELSE CInt(Trunc(x, y))
      [] op = "%" -> IF y = 0 THEN CUndefined ELSE CInt(x - y * Trunc(x, y))
      [] op = "+" -> CInt(x + y)
      [] op = "-" -> CInt(x - y)
      [] op = "<<" ->
            IF x < 0 \/ y < 0 \/ y > 30 THEN CUndefined ELSE CInt(x * 2 ^ y)
      [] op = ">>" ->
            IF x < 0 \/ y < 0 \/ y > 31 THEN CUndefined
            ELSE IF y = 31 THEN CInt(0) ELSE CInt(x \div 2 ^ y)
      [] op = "<" -> CBool(x < y)
      [] op = ">" -> CBool(x > y)
      [] op = "<=" -> CBool(x <= y)
      [] op = ">=" -> CBool(x >= y)
      [] op = "==" -> CBool(x = y)
      [] op = "!=" -> CBool(x # y)
      [] op = "&" -> CInt(BitAnd(x, y))
      [] op = "^" -> CInt(BitXor(x, y))
      [] op = "|" -> CInt(BitOr(x, y))

CUnary(op, x) ==
    CASE op = "+" -> CInt(x)
      [] op = "-" -> CInt(-x)
      [] op = "~" -> CInt(-x - 1)
      [] op = "!" -> CBool(x = 0)

RECURSIVE CValue(_)

CValueOn(e, l, r) ==
    IF ~l.defined \/ ~r.defined THEN CUndefined ELSE CBinary(e.operator, l.n, r.n)

CTruth(x) == IF ~x.defined THEN CUndefined ELSE CBool(x.n # 0)

\* l && r, l || r: r counts only when l does not decide.
CLogicalOn(e, l) ==
    IF ~l.defined THEN CUndefined
    ELSE IF e.operator = "&&" /\ l.n = 0 THEN CInt(0)
    ELSE IF e.operator = "||" /\ l.n # 0 THEN CInt(1)
    ELSE CTruth(CValue(e.kids[2]))

CUnaryOn(e, x) == IF ~x.defined THEN CUndefined ELSE CUnary(e.operator, x.n)

CValue(e) ==
    CASE e.type = "int_constant" -> CInt(DigitsValue(Plain(e.token)))
      [] e.type = "group" -> CValue(e.kids[1])
      [] e.type = "unary" /\ e.operator \in UnaryOperators ->
            CUnaryOn(e, CValue(e.kids[1]))
      [] e.type = "binary" /\ e.operator \in {"&&", "||"} ->
            CLogicalOn(e, CValue(e.kids[1]))
      [] e.type = "binary" /\ e.operator \in BinaryOperators \ {"&&", "||"} ->
            CValueOn(e, CValue(e.kids[1]), CValue(e.kids[2]))
      [] OTHER -> CUndefined

\* The operators of an expression.
RECURSIVE OperatorsOf(_)
OperatorsOf(e) ==
    (IF e.type \in {"unary", "binary"} THEN {e.operator} ELSE {})
    \cup UNION { OperatorsOf(e.kids[j]) : j \in 1..Len(e.kids) }

\* The handler has met a conditional that is not preserved and has an #if
\* whose expression has a value in C, as have the expressions of its #elif
\* parts.
IfOfConstants ==
    /\ wlast.kind = "conditional"
    /\ ~wlast.preserved
    /\ wlast.entered.ifPart[1].type = "if"
    /\ CValue(wlast.entered.ifPart[1].expression[1]).defined
    /\ \A j \in 1..Len(wlast.entered.elseIfParts) :
          CValue(wlast.entered.elseIfParts[j].expression[1]).defined

\* The #if was decided as its value in C decides it.
DecidedAsInC ==
    /\ wlast.sel.st = "ok"
    /\ IfPartTaken <=> CValue(wlast.entered.ifPart[1].expression[1]).n # 0

\* The #if is l && r or l || r, l decides and r cannot be evaluated.
LeftDecides ==
    /\ wlast.kind = "conditional"
    /\ ~wlast.preserved
    /\ wlast.entered.ifPart[1].type = "if"
    /\ wlast.entered.ifPart[1].expression[1].type = "binary"
    /\ wlast.entered.ifPart[1].expression[1].operator \in {"&&", "||"}
    /\ CValue(wlast.entered.ifPart[1].expression[1].kids[1]).defined
    /\ (wlast.entered.ifPart[1].expression[1].operator = "||")
         = (CValue(wlast.entered.ifPart[1].expression[1].kids[1]).n # 0)
    /\ evaluteExpression(wlast.entered.ifPart[1].expression[1].kids[2],
                         <<>>).st # "ok"

\* C24: an #if expression of base-10 integer constants, groups and
\* operators selects its branch exactly when its value as a C integer
\* expression is not zero, the quotient of "/" being rounded toward zero;
\* and when the left operand of && or || decides, the right operand is not
\* evaluated, so that the handler does not fail on it.
C24_ConstantExpressionsAsInC ==
    /\ IfOfConstants => DecidedAsInC
    /\ LeftDecides => wlast.sel.st = "ok"

(***************************************************************************)
(* C25: an identifier of an #if that names an integer constant.            *)
(***************************************************************************)

\* The identifiers of an expression other than the operands of defined().
RECURSIVE IdentifiersOf(_)
IdentifiersOf(e) ==
    (IF e.type = "identifier" THEN {Plain(e.identifier)} ELSE {})
    \cup UNION { IdentifiersOf(e.kids[j]) : j \in 1..Len(e.kids) }

\* The own entries of the table under a name.
EntriesNamed(env, name) ==
    { j \in 1..Len(env) : ~env[j].proto /\ Chars(env[j].name) = name }

\* The name is an object-like macro whose body is a base-10 integer literal.
NamesConstant(env, name) ==
    /\ EntriesNamed(env, name) # {}
    /\ \A j \in EntriesNamed(env, name) :
          ~env[j].isFn /\ IsDigits(Plain(env[j].body))

\* The expression with the literal of each such identifier in its place.
RECURSIVE WithConstants(_, _)
WithConstants(e, env) ==
    IF e.type = "identifier"
    THEN [e EXCEPT !.type = "int_constant",
                   !.token = env[Min(EntriesNamed(env, Plain(e.identifier)))].body,
                   !.identifier = <<>>]
    ELSE [e EXCEPT !.kids = [j \in 1..Len(e.kids) |-> WithConstants(e.kids[j], env)]]

\* The handler has met a conditional that is not preserved, without #elif
\* parts, whose #if has identifiers, each of them the name of a constant.
IfOfNamedConstants ==
    /\ wlast.kind = "conditional"
    /\ ~wlast.preserved
    /\ wlast.entered.ifPart[1].type = "if"
    /\ wlast.entered.elseIfParts = <<>>
    /\ IdentifiersOf(wlast.entered.ifPart[1].expression[1]) # {}
    /\ \A name \in IdentifiersOf(wlast.entered.ifPart[1].expression[1]) :
          NamesConstant(macros, name)

\* What the #if comes to with the literals in place of the identifiers.
ValueWithConstants ==
    evaluteExpression(WithConstants(wlast.entered.ifPart[1].expression[1], macros),
                      macros)

\* C25: in an #if, an identifier that is an object-like macro whose body is
\* the base-10 integer literal n evaluates as the constant n: the branch
\* selected is the one selected with the literal in place of the
\* identifier, under every operator and as the whole condition.
C25_IdentifierIsItsConstant ==
    IfOfNamedConstants =>
        /\ wlast.sel.st = ValueWithConstants.st
        /\ wlast.sel.st = "ok" => (IfPartTaken <=> isTruthy(ValueWithConstants.val))

(***************************************************************************)
(* C26: expansion leaves the macro table and the caller's defines alone.   *)
(***************************************************************************)

\* Two expansions with no directive entered between them were made under
\* the same table: names, definitions and order.
SameTableBetweenDirectives ==
    \A i, j \in 1..Len(uses) : uses[i].at = uses[j].at => uses[i].env = uses[j].env

\* A step that expands a text or the expressions of a conditional.
Expands == Len(uses') = Len(uses) + 1

\* C26: macro expansion never changes the macro environment: a handler that
\* calls expandMacros leaves the table of the walker as it was (names,
\* definitions and order), also when the expansion hid a name for a rescan,
\* so that the next text is expanded under the same table; and no step
\* changes the defines that the caller supplied.
C26_ExpansionKeepsEnvironment ==
    /\ []SameTableBetweenDirectives
    /\ [][Expands => macros' = macros]_vars
    /\ [][options' = options]_vars

\* Two texts that call the same function-like macro were both expanded, the
\* macro being hidden for the rescan of the first, and the table holds the
\* macro after both.
C26_Witness ==
    /\ Len(uses) >= 2
    /\ uses[Len(uses)].kind = "text"
    /\ uses[Len(uses) - 1].kind = "text"
    /\ Len(out) >= 2
    /\ Plain(out[Len(out) - 1].text) = Chars("Y Y")
    /\ Plain(out[Len(out)].text) = Chars("Y Y")
    /\ Plain(wlast.node.text) = Chars("f(X)")
    /\ \E m \in 1..Len(macros) : macros[m].name = "f" /\ macros[m].isFn
    /\ macros = uses[Len(uses)].env
    /\ macros = uses[Len(uses) - 1].env
====
